---- MODULE Spec2Model ----
(***************************************************************************)
(* The tool layer of mcp-etrap (src/mcp_etrap/tools): each tool call is a  *)
(* coroutine that runs between awaits of the backend client (etrap_sdk's   *)
(* ETRAPClient).  A request occupies a slot; a step of the layer runs the  *)
(* handler's code from one await to the next; a step of the backend        *)
(* completes the pending call by returning a value or raising.             *)
(*                                                                         *)
(* Python values: an Optional is None (<<>>) or Some(v) (<<v>>); a dict    *)
(* read only through .get() is a record of Optionals (key absent = None).  *)
(***************************************************************************)
EXTENDS Integers, Sequences, FiniteSets, TLC

VARIABLES pc, inp, loc, calls, out, cache, client, now

vars == <<pc, inp, loc, calls, out, cache, client, now>>

(***************************************************************************)
(* Python values                                                           *)
(***************************************************************************)
None == <<>>

Some(v) == <<v>>

Val(o) == o[1]

\* Python truthiness of an Optional[str]: None and "" are falsy.
Truthy(o) == o # None /\ o # Some("")

Last(q) == q[Len(q)]

(***************************************************************************)
(* Bounds on the environment's answers                                     *)
(***************************************************************************)
\* longest sample the backend's recent-batch enumeration returns
MaxRecent == 2

\* longest transaction list in a cached batch representation
MaxCached == 2

\* longest transaction list given to verify_batch / result list of a listing
MaxItems == 2

\* the number of recent batches verify_transaction_sdk asks for
RecentBatchLimit == 100

\* list_batches: largest limit served
MaxLimit == 1000

\* search_batches: largest max_results served
MaxResults == 200

Slots == {"r1", "r2"}

BatchIds == {"B1", "B2"}

\* the message of an exception raised by the backend client
BackendError == "RPC error"

\* the SHA-256 the backend computes for the request's transaction_data
TxHash == "h1"

(***************************************************************************)
(* Timestamps: the strings a caller supplies and datetime.fromisoformat    *)
(***************************************************************************)
T1 == "2025-07-01T09:54:00"

T2 == "2025-07-01T09:56:00Z"

BadTime == "yesterday"

\* str.replace('Z', '+00:00') on the strings of the model
ReplaceZ(str) ==
  CASE str = "2025-07-01T09:56:00Z" -> "2025-07-01T09:56:00+00:00"
    [] OTHER -> str

\* the strings datetime.fromisoformat accepts; any other raises ValueError
IsoFormats == {"2025-07-01T09:54:00", "2025-07-01T09:56:00+00:00"}

\* datetime.fromisoformat(str.replace('Z', '+00:00')): a datetime or a ValueError
fromisoformat(str) ==
  LET r == ReplaceZ(str) IN
  CASE r = "2025-07-01T09:54:00" ->
         [ok |-> TRUE, dt |-> [date |-> <<2025, 7, 1>>, time |-> <<9, 54, 0>>, tzinfo |-> None]]
    [] r = "2025-07-01T09:56:00+00:00" ->
         [ok |-> TRUE, dt |-> [date |-> <<2025, 7, 1>>, time |-> <<9, 56, 0>>, tzinfo |-> Some("UTC")]]
    [] OTHER ->
         [ok |-> FALSE, error |-> "Invalid isoformat string: 'yesterday'"]

(***************************************************************************)
(* Hints                                                                   *)
(***************************************************************************)
\* hints_dict = {} of verify_transaction: no key present
EmptyHintsDict ==
  [batch_id |-> None, database_name |-> None, table_name |-> None,
   expected_operation |-> None, time_start |-> None, time_end |-> None]

\* `if hints:` on a dict: true iff it has a key
DictNonEmpty(d) ==
  \/ d.batch_id # None
  \/ d.database_name # None
  \/ d.table_name # None
  \/ d.expected_operation # None
  \/ d.time_start # None
  \/ d.time_end # None

\* hints_to_dict parsing each supplied bound on its own, as list_batches does
hints_to_dict_each_bound(hints) ==
  IF hints = None THEN [ok |-> TRUE, dict |-> EmptyHintsDict]
  ELSE
    LET h == Val(hints)
        keep(f) == IF Truthy(f) THEN f ELSE None
        start_dt == IF Truthy(h.time_start) THEN fromisoformat(Val(h.time_start))
                    ELSE [ok |-> TRUE]
        end_dt == IF Truthy(h.time_end) THEN fromisoformat(Val(h.time_end))
                  ELSE [ok |-> TRUE]
        both == Truthy(h.time_start) /\ Truthy(h.time_end)
    IN
    IF ~start_dt.ok THEN [ok |-> FALSE, error |-> start_dt.error]
    ELSE IF ~end_dt.ok THEN [ok |-> FALSE, error |-> end_dt.error]
    ELSE [ok |-> TRUE,
          dict |-> [batch_id |-> keep(h.batch_id),
                    database_name |-> keep(h.database_name),
                    table_name |-> keep(h.table_name),
                    expected_operation |-> keep(h.expected_operation),
                    time_start |-> IF both THEN Some(start_dt.dt) ELSE None,
                    time_end |-> IF both THEN Some(end_dt.dt) ELSE None]]

\* verify_transaction: VerificationHintsInput -> hints_dict, or the ValueError
\* of a timestamp that does not parse.  The two bounds are parsed only when
\* both are supplied, time_start first.
hints_to_dict(hints) ==
  IF hints = None THEN [ok |-> TRUE, dict |-> EmptyHintsDict]
  ELSE
    LET h == Val(hints)
        keep(f) == IF Truthy(f) THEN f ELSE None
        d == [batch_id |-> keep(h.batch_id),
              database_name |-> keep(h.database_name),
              table_name |-> keep(h.table_name),
              expected_operation |-> keep(h.expected_operation),
              time_start |-> None, time_end |-> None]
    IN
    IF Truthy(h.time_start) /\ Truthy(h.time_end) THEN
      LET start_dt == fromisoformat(Val(h.time_start))
          end_dt == fromisoformat(Val(h.time_end))
      IN
      IF ~start_dt.ok THEN [ok |-> FALSE, error |-> start_dt.error]
      ELSE IF ~end_dt.ok THEN [ok |-> FALSE, error |-> end_dt.error]
      ELSE [ok |-> TRUE,
            dict |-> [d EXCEPT !.time_start = Some(start_dt.dt),
                               !.time_end = Some(end_dt.dt)]]
    ELSE [ok |-> TRUE, dict |-> d]

\* make_verification_hints without its `if hints:`: an object in any case
make_verification_hints_always(d) ==
  Some([batch_id |-> d.batch_id,
        table_name |-> d.table_name,
        database_name |-> d.database_name,
        time_range |-> IF d.time_start # None /\ d.time_end # None
                       THEN Some([start |-> Val(d.time_start), end |-> Val(d.time_end)])
                       ELSE None,
        expected_operation |-> d.expected_operation])

\* verify_transaction_sdk: hints_dict -> Optional[VerificationHints]
make_verification_hints(d) ==
  IF DictNonEmpty(d) THEN
    Some([batch_id |-> d.batch_id,
          table_name |-> d.table_name,
          database_name |-> d.database_name,
          time_range |-> IF d.time_start # None /\ d.time_end # None
                         THEN Some([start |-> Val(d.time_start), end |-> Val(d.time_end)])
                         ELSE None,
          expected_operation |-> d.expected_operation])
  ELSE None

\* using_batch_hint reading a key the dict never has
using_batch_hint_wrong_key(d) == FALSE

\* using_batch_hint = hints and hints.get('batch_id')
using_batch_hint(d) == DictNonEmpty(d) /\ Truthy(d.batch_id)

\* batch_verification_hints making a time range of a single bound
batch_verification_hints_either_bound(hints) ==
  IF hints = None THEN [ok |-> TRUE, hints |-> None]
  ELSE
    LET h == Val(hints)
        time_range == IF Truthy(h.time_start) \/ Truthy(h.time_end)
                      THEN Some([start |-> h.time_start, end |-> h.time_end])
                      ELSE None
    IN
    IF \/ Truthy(h.batch_id) \/ Truthy(h.table_name) \/ Truthy(h.database_name)
       \/ time_range # None \/ Truthy(h.expected_operation)
    THEN [ok |-> TRUE,
          hints |-> Some([batch_id |-> h.batch_id,
                          table_name |-> h.table_name,
                          database_name |-> h.database_name,
                          time_range |-> time_range,
                          expected_operation |-> h.expected_operation])]
    ELSE [ok |-> TRUE, hints |-> None]

\* verify_batch: BatchVerificationHintsInput -> Optional[VerificationHints], or
\* the ValueError of a timestamp that does not parse
batch_verification_hints(hints) ==
  IF hints = None THEN [ok |-> TRUE, hints |-> None]
  ELSE
    LET h == Val(hints)
        both == Truthy(h.time_start) /\ Truthy(h.time_end)
        start_dt == fromisoformat(Val(h.time_start))
        end_dt == fromisoformat(Val(h.time_end))
    IN
    IF both /\ ~start_dt.ok THEN [ok |-> FALSE, error |-> start_dt.error]
    ELSE IF both /\ ~end_dt.ok THEN [ok |-> FALSE, error |-> end_dt.error]
    ELSE
      LET time_range == IF both THEN Some([start |-> start_dt.dt, end |-> end_dt.dt])
                        ELSE None
      IN
      IF \/ Truthy(h.batch_id) \/ Truthy(h.table_name) \/ Truthy(h.database_name)
         \/ time_range # None \/ Truthy(h.expected_operation)
      THEN [ok |-> TRUE,
            hints |-> Some([batch_id |-> h.batch_id,
                            table_name |-> h.table_name,
                            database_name |-> h.database_name,
                            time_range |-> time_range,
                            expected_operation |-> h.expected_operation])]
      ELSE [ok |-> TRUE, hints |-> None]

(***************************************************************************)
(* The client's cache and the tier-2 lookup of verify_transaction_sdk      *)
(***************************************************************************)
\* cache_key = f"batch_data_{result.batch_id}"
cache_key(batch_id) == <<"batch_data_", batch_id>>

CacheKeys == {cache_key(b) : b \in BatchIds}

Digits == {"0", "1", "2", "3", "4", "5", "6", "7", "8", "9"}

DigitVal(c) ==
  CASE c = "0" -> 0 [] c = "1" -> 1 [] c = "2" -> 2 [] c = "3" -> 3 [] c = "4" -> 4
    [] c = "5" -> 5 [] c = "6" -> 6 [] c = "7" -> 7 [] c = "8" -> 8 [] c = "9" -> 9

\* str.split('-')[0]: what precedes the first '-'
RECURSIVE first_token(_)
first_token(str) ==
  IF str = <<>> THEN <<>>
  ELSE IF Head(str) = "-" THEN <<>>
  ELSE <<Head(str)>> \o first_token(Tail(str))

\* str.split('-')[-1]: what follows the last '-' (the whole string without one)
RECURSIVE last_token(_)
last_token(str) ==
  IF str = <<>> THEN <<>>
  ELSE IF Last(str) = "-" THEN <<>>
  ELSE Append(last_token(SubSeq(str, 1, Len(str) - 1)), Last(str))

RECURSIVE digits_value(_)
digits_value(tok) ==
  IF tok = <<>> THEN 0
  ELSE 10 * digits_value(SubSeq(tok, 1, Len(tok) - 1)) + DigitVal(Last(tok))

\* int(token) on a string of the model's alphabet (letters, digits, '-'):
\* the decimal value of a non-empty run of digits, ValueError otherwise
parse_int(tok) ==
  IF tok # <<>> /\ \A i \in 1..Len(tok) : tok[i] \in Digits
  THEN [ok |-> TRUE, val |-> digits_value(tok)]
  ELSE [ok |-> FALSE]

\* the body of the loop over batch_json['transactions'] from entry i on:
\* the first entry whose metadata hash equals transaction_hash decides
RECURSIVE scan_transactions(_, _, _)
scan_transactions(txs, i, transaction_hash) ==
  IF i > Len(txs) THEN [st |-> "none"]
  ELSE
    LET tx == txs[i]
        hash == IF tx.metadata = None THEN None ELSE Val(tx.metadata).hash
    IN
    IF hash = Some(transaction_hash) THEN
      LET md == Val(tx.metadata)
          op == IF md.operation_type = None THEN "INSERT" ELSE Val(md.operation_type)
          n == parse_int(last_token(Val(md.transaction_id)))
      IN
      IF md.transaction_id = None THEN [st |-> "raised"]    \* KeyError
      ELSE IF ~n.ok THEN [st |-> "raised"]                  \* ValueError
      ELSE [st |-> "found", operation_type |-> op, position |-> n.val]
    ELSE scan_transactions(txs, i + 1, transaction_hash)

\* the try-block of tier 2 once get_batch_data has returned batch_data
tier2_lookup(batch_data, the_cache, batch_id, transaction_hash) ==
  IF batch_data = None THEN [st |-> "none"]
  ELSE
    LET key == cache_key(batch_id) IN
    IF the_cache[key] = None THEN [st |-> "none"]
    ELSE
      LET batch_json == Val(the_cache[key]) IN
      IF batch_json.kind # "dict" THEN [st |-> "raised"]    \* no .get on it
      ELSE scan_transactions(
             IF batch_json.transactions = None THEN <<>> ELSE Val(batch_json.transactions),
             1, transaction_hash)

(***************************************************************************)
(* Calls of the backend client, and what a handler hands back              *)
(***************************************************************************)
Pending == [st |-> "pending"]

Returned(v) == [st |-> "returned", val |-> v]

Raised(msg) == [st |-> "raised", msg |-> msg]

\* the record of one awaited call: the method, its arguments, its outcome
Call(fn, args) == [fn |-> fn, args |-> args, res |-> Pending]

\* the outcome of the call a suspended handler is waiting for
Answer(s) == Last(calls[s]).res

Awaiting(s, fn) ==
  /\ calls[s] # <<>>
  /\ Last(calls[s]).fn = fn
  /\ Answer(s) = Pending

Answered(s) == calls[s] # <<>> /\ Answer(s) # Pending

Complete(s, res) == [calls EXCEPT ![s] = [@ EXCEPT ![Len(@)].res = res]]

\* a handler's `return value`
Return(v) == Some([kind |-> "return", val |-> v])

\* an exception leaving a handler
Raise(msg) == Some([kind |-> "raise", val |-> msg])

NoLocals == [exc |-> None]

(***************************************************************************)
(* verify_transaction: result composition                                  *)
(***************************************************************************)
\* search_info at the top of verify_transaction_sdk
SearchInfo0 == [total_batches |-> 0, batch_position |-> 0, direct_lookup |-> None]

\* search_info for a direct batch_id hint
SearchInfoDirect == [total_batches |-> 1, batch_position |-> 1, direct_lookup |-> Some(TRUE)]

\* the arguments of client.verify_transaction
verify_call(r, d) ==
  Call("verify_transaction",
       [transaction_data |-> r.transaction_data,
        hints |-> make_verification_hints(d),
        use_contract_verification |-> r.use_contract_verification])

\* response['merkle_proof']: the five fields of result.merkle_proof
merkle_proof_dict(mp) ==
  [leaf_hash |-> mp.leaf_hash,
   proof_path |-> mp.proof_path,
   sibling_positions |-> mp.sibling_positions,
   merkle_root |-> mp.merkle_root,
   is_valid |-> mp.is_valid]

\* the response dict after the backend's verification returned `result`
response_of(result, use_contract_verification, processing_time_ms) ==
  [verified |-> result.verified,
   transaction_hash |-> result.transaction_hash,
   batch_id |-> result.batch_id,
   blockchain_timestamp |-> result.blockchain_timestamp,
   error |-> result.error,
   verification_method |-> IF use_contract_verification THEN "smart_contract" ELSE "local",
   processing_time_ms |-> processing_time_ms,
   merkle_proof |-> IF result.merkle_proof # None
                    THEN Some(merkle_proof_dict(Val(result.merkle_proof)))
                    ELSE None,
   batch_info |-> None,
   operation_type |-> None,
   position |-> None]

\* batch_info_of taking the batch id for the database
batch_info_of_wrong_field(batch) ==
  [database |-> batch.batch_id,
   tables |-> batch.table_names,
   transaction_count |-> batch.transaction_count,
   timestamp |-> Val(batch.timestamp)]

\* response['batch_info'] from the record get_batch returned
batch_info_of(batch) ==
  [database |-> batch.database_name,
   tables |-> batch.table_names,
   transaction_count |-> batch.transaction_count,
   timestamp |-> Val(batch.timestamp)]

\* the loop over recent_batches: the 1-based index of the first entry with the
\* matched batch_id; batch_position is left as it was without one
RECURSIVE position_in(_, _, _, _)
position_in(recent_batches, i, batch_id, unchanged) ==
  IF i > Len(recent_batches) THEN unchanged
  ELSE IF recent_batches[i].batch_id = batch_id THEN i
  ELSE position_in(recent_batches, i + 1, batch_id, unchanged)

\* VerificationResultOut built from the dict verify_transaction_sdk returned;
\* response['search_info'] is the search_info dict itself
verification_result_out(response, search_info) ==
  [verified |-> response.verified,
   transaction_hash |-> response.transaction_hash,
   batch_id |-> response.batch_id,
   blockchain_timestamp |-> response.blockchain_timestamp,
   error |-> response.error,
   search_info |-> Some([total_batches |-> search_info.total_batches,
                         batch_position |-> search_info.batch_position,
                         direct_lookup |-> search_info.direct_lookup]),
   verification_method |-> response.verification_method,
   merkle_proof |-> response.merkle_proof,
   batch_info |-> response.batch_info,
   operation_type |-> response.operation_type,
   position |-> response.position,
   processing_time_ms |-> response.processing_time_ms]

\* the VerificationResultOut of the except clause
verification_error_out(msg) ==
  [verified |-> FALSE,
   transaction_hash |-> "",
   batch_id |-> None,
   blockchain_timestamp |-> None,
   error |-> Some(msg),
   search_info |-> None,
   verification_method |-> "local",
   merkle_proof |-> None,
   batch_info |-> None,
   operation_type |-> None,
   position |-> None,
   processing_time_ms |-> 0]

\* verify_transaction without its try/except: the exception leaves the handler
verify_transaction_reraise(msg) == Raise(msg)

\* `except Exception as e:` of verify_transaction
verify_transaction_except(msg) == Return(verification_error_out(msg))

\* tier2_response without the except clause's assignment
tier2_response_no_default(response, found) ==
  CASE found.st = "found" ->
         [response EXCEPT !.operation_type = Some(found.operation_type),
                          !.position = Some(found.position)]
    [] OTHER -> response

\* what tier 2 leaves in the response: the entry found, nothing, or the
\* 'INSERT' of its except clause (position is not assigned when it raises)
tier2_response(response, found) ==
  CASE found.st = "found" ->
         [response EXCEPT !.operation_type = Some(found.operation_type),
                          !.position = Some(found.position)]
    [] found.st = "raised" -> [response EXCEPT !.operation_type = Some("INSERT")]
    [] OTHER -> response

(***************************************************************************)
(* The requests a caller makes and the answers the backend gives           *)
(***************************************************************************)
SeqsUpTo(S, n) == UNION {[1..k -> S] : k \in 0..n}

HintsInput(b, d, t, e, ts, te) ==
  Some([batch_id |-> b, database_name |-> d, table_name |-> t,
        expected_operation |-> e, time_start |-> ts, time_end |-> te])

\* every set/unset combination of the hint fields, each bound of the time
\* range absent, well-formed or malformed
AllHints ==
  {None} \cup
  {HintsInput(b, d, t, e, ts, te) :
     b \in {None, Some("B1")}, d \in {None, Some("sales")}, t \in {None, Some("orders")},
     e \in {None, Some("DELETE")},
     ts \in {None, Some(T1), Some(BadTime)}, te \in {None, Some(T2), Some(BadTime)}}

\* a few hints: none, an empty object, a batch id, a time range, a lone bound,
\* a malformed bound
FewHints ==
  {None,
   HintsInput(None, None, None, None, None, None),
   HintsInput(Some("B1"), None, None, None, None, None),
   HintsInput(None, None, None, None, Some(T1), Some(T2)),
   HintsInput(None, None, None, None, Some(T1), None),
   HintsInput(None, Some("sales"), None, None, Some(T1), Some(BadTime))}

\* the payload of the repository's own test
TransactionData == [id |-> 145, amount |-> "8000.00"]

VerifyTransactionRequests(Hints) ==
  {[op |-> "verify_transaction", transaction_data |-> TransactionData, hints |-> h,
    timeout |-> t, use_contract_verification |-> u] :
     h \in Hints, t \in {None, Some(30)}, u \in BOOLEAN}

MerkleProof(valid) ==
  [leaf_hash |-> TxHash, proof_path |-> <<"p1">>, sibling_positions |-> <<"left">>,
   merkle_root |-> "root", is_valid |-> valid]

Instant == [date |-> <<2025, 7, 1>>, time |-> <<9, 55, 0>>, tzinfo |-> None]

\* the VerificationResult objects client.verify_transaction may return
VerificationResults ==
  UNION {
    {[verified |-> v, transaction_hash |-> TxHash, batch_id |-> b,
      blockchain_timestamp |-> IF b = None THEN None ELSE Some(Instant),
      error |-> IF v THEN None ELSE Some("Transaction not found"),
      operation_type |-> o, merkle_proof |-> m] :
       b \in {None} \cup {Some(x) : x \in BatchIds},
       o \in {None, Some("UPDATE")}, m \in {None, Some(MerkleProof(v))}} :
    v \in BOOLEAN}

FewVerificationResults ==
  {r \in VerificationResults :
     /\ r.batch_id \in {None, Some("B1")}
     /\ r.verified <=> (r.batch_id # None)
     /\ r.verified <=> (r.merkle_proof # None)}

\* the samples client._get_recent_batches may return
RecentSamples == SeqsUpTo({[batch_id |-> b] : b \in BatchIds}, MaxRecent)

FewRecentSamples == {<<>>, <<[batch_id |-> "B1"]>>}

\* the BatchInfo the backend holds for a batch id
BatchRecord(b) ==
  [batch_id |-> b,
   database_name |-> IF b = "B1" THEN "sales" ELSE "hr",
   table_names |-> IF b = "B1" THEN <<"orders">> ELSE <<"staff", "pay">>,
   transaction_count |-> IF b = "B1" THEN 3 ELSE 5,
   timestamp |-> Some(Instant),
   merkle_root |-> IF b = "B1" THEN "root1" ELSE "root2",
   size_bytes |-> IF b = "B1" THEN Some(2048) ELSE None,
   s3_location |-> IF b = "B1"
                   THEN Some([bucket |-> "etrap-acme", key |-> "sales/orders/B1",
                              region |-> "us-west-2"])
                   ELSE None]

\* the BatchData the backend holds for a batch id (get_batch_data)
BatchData(b) ==
  [operation_counts |-> IF b = "B1"
                        THEN Some([inserts |-> 2, updates |-> 1, deletes |-> 0])
                        ELSE None]

\* a record the backend returns without a timestamp
BrokenRecord == [BatchRecord("B2") EXCEPT !.timestamp = None]

\* datetime.isoformat() on the datetimes of the model
isoformat(dt) ==
  CASE dt = Instant -> "2025-07-01T09:55:00"
    [] dt = fromisoformat(T1).dt -> "2025-07-01T09:54:00"
    [] dt = fromisoformat(T2).dt -> "2025-07-01T09:56:00+00:00"

TxEntry(hash, op, id) ==
  [metadata |-> Some([hash |-> hash, operation_type |-> op, transaction_id |-> id])]

\* entries of a cached batch representation: one without metadata, one of
\* another transaction, and entries of the verified transaction with and
\* without an operation type and a numeric identifier
CachedTransactions ==
  {[metadata |-> None],
   TxEntry(Some("h2"), Some("DELETE"), Some(<<"B", "1", "-", "0">>)),
   TxEntry(Some(TxHash), Some("DELETE"), Some(<<"B", "1", "-", "1", "2">>)),
   TxEntry(Some(TxHash), None, Some(<<"B", "-", "1", "-", "3">>)),
   TxEntry(Some(TxHash), Some("UPDATE"), Some(<<"B", "1", "-", "x">>)),
   TxEntry(Some(TxHash), Some("UPDATE"), None)}

\* what client._cache may hold under a batch's key after get_batch_data
CacheEntries ==
  {None, Some([kind |-> "malformed"]), Some([kind |-> "dict", transactions |-> None])}
  \cup {Some([kind |-> "dict", transactions |-> Some(l)]) :
          l \in SeqsUpTo(CachedTransactions, MaxCached)}

FewCacheEntries ==
  {None,
   Some([kind |-> "dict", transactions |->
           Some(<<TxEntry(Some(TxHash), Some("DELETE"), Some(<<"B", "1", "-", "1", "2">>))>>)])}

(***************************************************************************)
(* verify_transaction: the handler, from one await to the next             *)
(***************************************************************************)
Set(f, s, v) == [f EXCEPT ![s] = v]

\* the handler ends: its response is handed to the caller
Finish(s, response, locals) ==
  /\ pc' = Set(pc, s, "done")
  /\ out' = Set(out, s, response)
  /\ loc' = Set(loc, s, locals)

\* entry: hint conversion, then verify_transaction_sdk up to its first await
verify_transaction(s, Requests) ==
  /\ pc[s] = "idle"
  /\ \E r \in Requests :
       LET p == hints_to_dict(r.hints) IN
       /\ inp' = Set(inp, s, r)
       /\ IF ~p.ok THEN
            /\ Finish(s, verify_transaction_except(p.error), [exc |-> Some(p.error)])
            /\ UNCHANGED calls
          ELSE
            LET d == p.dict
                direct == using_batch_hint(d)
            IN
            /\ loc' = Set(loc, s,
                 [exc |-> None, hints_dict |-> d, start_time |-> now,
                  search_info |-> IF direct THEN SearchInfoDirect ELSE SearchInfo0,
                  recent_batches |-> <<>>, result |-> None, response |-> None])
            /\ calls' = Set(calls, s,
                 <<IF direct THEN verify_call(r, d)
                   ELSE Call("_get_recent_batches", [limit |-> RecentBatchLimit])>>)
            /\ pc' = Set(pc, s, IF direct THEN "vt_verify" ELSE "vt_recent")
            /\ UNCHANGED out
  /\ UNCHANGED <<cache, client, now>>

\* after `await client._get_recent_batches(100)`: an exception is swallowed
vt_after_recent_batches(s) ==
  /\ pc[s] = "vt_recent"
  /\ Answered(s)
  /\ LET a == Answer(s)
         recent == IF a.st = "returned" THEN a.val ELSE <<>>
     IN
     /\ loc' = Set(loc, s,
          [loc[s] EXCEPT !.recent_batches = recent,
                         !.search_info.total_batches = Len(recent)])
     /\ calls' = Set(calls, s, Append(calls[s], verify_call(inp[s], loc[s].hints_dict)))
     /\ pc' = Set(pc, s, "vt_verify")
  /\ UNCHANGED <<inp, out, cache, client, now>>

\* after `await client.verify_transaction(...)`
\* vt_after_verify enriching whenever the backend names a batch
vt_after_verify_enrich_any(s) ==
  /\ pc[s] = "vt_verify"
  /\ Answered(s)
  /\ LET a == Answer(s) IN
     IF a.st = "raised" THEN
       /\ Finish(s, verify_transaction_except(a.msg), [loc[s] EXCEPT !.exc = Some(a.msg)])
       /\ UNCHANGED calls
     ELSE
       LET result == a.val
           response == response_of(result, inp[s].use_contract_verification,
                                   now - loc[s].start_time)
           locals == [loc[s] EXCEPT !.result = Some(result), !.response = Some(response)]
       IN
       IF Truthy(result.batch_id) THEN
         /\ loc' = Set(loc, s, locals)
         /\ calls' = Set(calls, s,
              Append(calls[s], Call("get_batch", [batch_id |-> Val(result.batch_id)])))
         /\ pc' = Set(pc, s, "vt_batch")
         /\ UNCHANGED out
       ELSE
         /\ Finish(s, Return(verification_result_out(response, loc[s].search_info)), locals)
         /\ UNCHANGED calls
  /\ UNCHANGED <<inp, cache, client, now>>

vt_after_verify(s) ==
  /\ pc[s] = "vt_verify"
  /\ Answered(s)
  /\ LET a == Answer(s) IN
     IF a.st = "raised" THEN
       /\ Finish(s, verify_transaction_except(a.msg), [loc[s] EXCEPT !.exc = Some(a.msg)])
       /\ UNCHANGED calls
     ELSE
       LET result == a.val
           response == response_of(result, inp[s].use_contract_verification,
                                   now - loc[s].start_time)
           locals == [loc[s] EXCEPT !.result = Some(result), !.response = Some(response)]
       IN
       IF result.verified /\ Truthy(result.batch_id) THEN
         /\ loc' = Set(loc, s, locals)
         /\ calls' = Set(calls, s,
              Append(calls[s], Call("get_batch", [batch_id |-> Val(result.batch_id)])))
         /\ pc' = Set(pc, s, "vt_batch")
         /\ UNCHANGED out
       ELSE
         /\ Finish(s, Return(verification_result_out(response, loc[s].search_info)), locals)
         /\ UNCHANGED calls
  /\ UNCHANGED <<inp, cache, client, now>>

\* after `await client.get_batch(result.batch_id)`
vt_after_get_batch(s) ==
  /\ pc[s] = "vt_batch"
  /\ Answered(s)
  /\ LET a == Answer(s)
         result == Val(loc[s].result)
         response == Val(loc[s].response)
     IN
     IF a.st = "raised" THEN
       /\ Finish(s, verify_transaction_except(a.msg), [loc[s] EXCEPT !.exc = Some(a.msg)])
       /\ UNCHANGED calls
     ELSE IF a.val = None THEN
       /\ Finish(s, Return(verification_result_out(response, loc[s].search_info)), loc[s])
       /\ UNCHANGED calls
     ELSE
       LET with_info == [response EXCEPT !.batch_info = Some(batch_info_of(Val(a.val)))]
           search_info ==
             [loc[s].search_info EXCEPT !.batch_position =
                position_in(loc[s].recent_batches, 1, Val(result.batch_id), @)]
           locals == [loc[s] EXCEPT !.search_info = search_info]
       IN
       IF Truthy(result.operation_type) THEN
         LET typed == [with_info EXCEPT !.operation_type = result.operation_type] IN
         /\ Finish(s, Return(verification_result_out(typed, search_info)),
                   [locals EXCEPT !.response = Some(typed)])
         /\ UNCHANGED calls
       ELSE
         /\ loc' = Set(loc, s, [locals EXCEPT !.response = Some(with_info)])
         /\ calls' = Set(calls, s,
              Append(calls[s], Call("get_batch_data", [batch_id |-> Val(result.batch_id)])))
         /\ pc' = Set(pc, s, "vt_data")
         /\ UNCHANGED out
  /\ UNCHANGED <<inp, cache, client, now>>

\* after `await client.get_batch_data(result.batch_id)`: the cache is read,
\* and any exception of the lookup ends in operation_type 'INSERT'
\* vt_after_get_batch_data evicting the cache entry it inspected
vt_after_get_batch_data_evicting(s) ==
  /\ pc[s] = "vt_data"
  /\ Answered(s)
  /\ LET a == Answer(s)
         result == Val(loc[s].result)
         found == IF a.st = "raised" THEN [st |-> "raised"]
                  ELSE tier2_lookup(a.val, cache, Val(result.batch_id), result.transaction_hash)
         response == tier2_response(Val(loc[s].response), found)
     IN
     /\ Finish(s, Return(verification_result_out(response, loc[s].search_info)),
               [loc[s] EXCEPT !.response = Some(response)])
     /\ cache' = [cache EXCEPT ![cache_key(Val(result.batch_id))] = None]
  /\ UNCHANGED <<inp, calls, client, now>>

vt_after_get_batch_data(s) ==
  /\ pc[s] = "vt_data"
  /\ Answered(s)
  /\ LET a == Answer(s)
         result == Val(loc[s].result)
         found == IF a.st = "raised" THEN [st |-> "raised"]
                  ELSE tier2_lookup(a.val, cache, Val(result.batch_id), result.transaction_hash)
         response == tier2_response(Val(loc[s].response), found)
     IN
     Finish(s, Return(verification_result_out(response, loc[s].search_info)),
            [loc[s] EXCEPT !.response = Some(response)])
  /\ UNCHANGED <<inp, calls, cache, client, now>>

(***************************************************************************)
(* verify_batch                                                            *)
(***************************************************************************)
VerifyBatchRequests(Hints, Lists, Flags) ==
  {[op |-> "verify_batch", transactions |-> l, hints |-> h,
    parallel |-> p, fail_fast |-> f, progress_callback |-> g] :
     h \in Hints, l \in Lists, p \in Flags, f \in Flags, g \in Flags}

\* the transaction lists a caller verifies
TransactionLists == SeqsUpTo({TransactionData, [id |-> 146, amount |-> "1.00"]}, MaxItems)

\* one entry of BatchVerificationResult.results
IndividualResults ==
  {[verified |-> TRUE, transaction_hash |-> TxHash, batch_id |-> Some("B1"),
    blockchain_timestamp |-> Some(Instant), operation_type |-> Some("INSERT"), error |-> None],
   [verified |-> FALSE, transaction_hash |-> "h2", batch_id |-> None,
    blockchain_timestamp |-> None, operation_type |-> None,
    error |-> Some("Transaction not found")]}

RECURSIVE count_verified(_)
count_verified(results) ==
  IF results = <<>> THEN 0
  ELSE count_verified(Tail(results)) + (IF Head(results).verified THEN 1 ELSE 0)

\* the BatchVerificationResult objects client.verify_batch may return for n
\* transactions: one result each, or fewer when the backend stopped early
BatchVerificationResults(n) ==
  {[total |-> n, verified |-> count_verified(l), failed |-> n - count_verified(l),
    results |-> l,
    summary |-> [success_rate |-> IF n = 0 THEN 0 ELSE (100 * count_verified(l)) \div n,
                 average_verification_time_ms |-> 7,
                 blockchain_confirmations |-> 12]] :
     l \in {x \in SeqsUpTo(IndividualResults, MaxItems) : Len(x) <= n}}

\* one entry of individual_results
individual_result_out(r) ==
  [verified |-> r.verified,
   transaction_hash |-> r.transaction_hash,
   batch_id |-> r.batch_id,
   blockchain_timestamp |-> IF r.blockchain_timestamp # None
                            THEN Some(isoformat(Val(r.blockchain_timestamp)))
                            ELSE None,
   operation_type |-> r.operation_type,
   error |-> r.error]

\* batch_verification_out listing the individual results last to first
batch_verification_out_reversed(r, result, processing_time_ms, start_time) ==
  [total_transactions |-> result.total,
   verified_count |-> result.verified,
   failed_count |-> result.failed,
   processing_time_ms |-> processing_time_ms,
   verification_timestamp |-> start_time,
   individual_results |->
     [i \in 1..Len(result.results) |->
        individual_result_out(result.results[Len(result.results) + 1 - i])],
   summary |-> [success_rate |-> Some(result.summary.success_rate),
                average_verification_time_ms |-> Some(result.summary.average_verification_time_ms),
                blockchain_confirmations |-> Some(result.summary.blockchain_confirmations),
                parallel_processing |-> r.parallel,
                fail_fast_mode |-> r.fail_fast,
                hints_used |-> Some(r.hints # None),
                error |-> None]]

\* BatchVerificationResultOut of the try-block
\* batch_verification_out keeping the first individual result only
batch_verification_out_first_only(r, result, processing_time_ms, start_time) ==
  [total_transactions |-> result.total,
   verified_count |-> result.verified,
   failed_count |-> result.failed,
   processing_time_ms |-> processing_time_ms,
   verification_timestamp |-> start_time,
   individual_results |->
     [i \in 1..(IF result.results = <<>> THEN 0 ELSE 1) |->
        individual_result_out(result.results[i])],
   summary |-> [success_rate |-> Some(result.summary.success_rate),
                average_verification_time_ms |-> Some(result.summary.average_verification_time_ms),
                blockchain_confirmations |-> Some(result.summary.blockchain_confirmations),
                parallel_processing |-> r.parallel,
                fail_fast_mode |-> r.fail_fast,
                hints_used |-> Some(r.hints # None),
                error |-> None]]

batch_verification_out(r, result, processing_time_ms, start_time) ==
  [total_transactions |-> result.total,
   verified_count |-> result.verified,
   failed_count |-> result.failed,
   processing_time_ms |-> processing_time_ms,
   verification_timestamp |-> start_time,
   individual_results |->
     [i \in 1..Len(result.results) |-> individual_result_out(result.results[i])],
   summary |-> [success_rate |-> Some(result.summary.success_rate),
                average_verification_time_ms |-> Some(result.summary.average_verification_time_ms),
                blockchain_confirmations |-> Some(result.summary.blockchain_confirmations),
                parallel_processing |-> r.parallel,
                fail_fast_mode |-> r.fail_fast,
                hints_used |-> Some(r.hints # None),
                error |-> None]]

\* verify_batch_except counting no transaction as failed
verify_batch_except_none_failed(r, msg, time) ==
  Return([total_transactions |-> Len(r.transactions),
          verified_count |-> 0,
          failed_count |-> 0,
          processing_time_ms |-> 0,
          verification_timestamp |-> time,
          individual_results |-> <<>>,
          summary |-> [success_rate |-> Some(0),
                       average_verification_time_ms |-> None,
                       blockchain_confirmations |-> None,
                       parallel_processing |-> r.parallel,
                       fail_fast_mode |-> r.fail_fast,
                       hints_used |-> None,
                       error |-> Some(msg)]])

\* `except Exception as e:` of verify_batch
verify_batch_except(r, msg, time) ==
  Return([total_transactions |-> Len(r.transactions),
          verified_count |-> 0,
          failed_count |-> Len(r.transactions),
          processing_time_ms |-> 0,
          verification_timestamp |-> time,
          individual_results |-> <<>>,
          summary |-> [success_rate |-> Some(0),
                       average_verification_time_ms |-> None,
                       blockchain_confirmations |-> None,
                       parallel_processing |-> r.parallel,
                       fail_fast_mode |-> r.fail_fast,
                       hints_used |-> None,
                       error |-> Some(msg)]])

\* entry: hint conversion, then the await of client.verify_batch
verify_batch(s, Requests) ==
  /\ pc[s] = "idle"
  /\ \E r \in Requests :
       LET p == batch_verification_hints(r.hints) IN
       /\ inp' = Set(inp, s, r)
       /\ IF ~p.ok THEN
            /\ Finish(s, verify_batch_except(r, p.error, now), [exc |-> Some(p.error)])
            /\ UNCHANGED calls
          ELSE
            /\ loc' = Set(loc, s, [exc |-> None, start_time |-> now])
            /\ calls' = Set(calls, s,
                 <<Call("verify_batch",
                        [transactions |-> r.transactions, hints |-> p.hints,
                         parallel |-> r.parallel, fail_fast |-> r.fail_fast,
                         progress_callback |-> IF r.progress_callback
                                               THEN Some("progress_cb") ELSE None])>>)
            /\ pc' = Set(pc, s, "vb_verify")
            /\ UNCHANGED out
  /\ UNCHANGED <<cache, client, now>>

\* after `await etrap_client.verify_batch(...)`
vb_after_verify(s) ==
  /\ pc[s] = "vb_verify"
  /\ Answered(s)
  /\ LET a == Answer(s) IN
     IF a.st = "raised" THEN
       Finish(s, verify_batch_except(inp[s], a.msg, now), [loc[s] EXCEPT !.exc = Some(a.msg)])
     ELSE
       Finish(s, Return(batch_verification_out(inp[s], a.val, now - loc[s].start_time,
                                               loc[s].start_time)),
              loc[s])
  /\ UNCHANGED <<inp, calls, cache, client, now>>

(***************************************************************************)
(* list_batches                                                            *)
(***************************************************************************)
\* parse the bound of a filter or of search criteria if it is supplied
parse_bound(bound) ==
  IF Truthy(bound) THEN
    LET dt == fromisoformat(Val(bound)) IN
    IF dt.ok THEN [ok |-> TRUE, dt |-> Some(dt.dt)] ELSE dt
  ELSE [ok |-> TRUE, dt |-> None]

FilterInput(d, ts, te) ==
  Some([database_name |-> d, table_name |-> None, time_start |-> ts, time_end |-> te,
        min_transaction_count |-> Some(1), max_transaction_count |-> None])

Filters ==
  {None} \cup
  {FilterInput(d, ts, te) :
     d \in {None, Some("sales")},
     ts \in {None, Some(T1), Some(BadTime)}, te \in {None, Some(T2), Some(BadTime)}}

ListBatchesRequests ==
  {[op |-> "list_batches", filter |-> f, limit |-> l, offset |-> o, order_by |-> ob] :
     f \in Filters, l \in {-1, 0, 100, MaxLimit, MaxLimit + 1, 5 * MaxLimit}, o \in {-3, 7},
     ob \in {"timestamp_desc", "sideways"}}

\* clamp_limit without the clamp
clamp_limit_unbounded(limit) == limit

\* `if limit > 1000: limit = 1000`
clamp_limit(limit) == IF limit > MaxLimit THEN MaxLimit ELSE limit

\* the BatchFilter given to the backend, or the ValueError of a bound
batch_filter(filter) ==
  IF filter = None THEN [ok |-> TRUE, filter |-> None]
  ELSE
    LET f == Val(filter)
        time_start == parse_bound(f.time_start)
        time_end == parse_bound(f.time_end)
    IN
    IF ~time_start.ok THEN time_start
    ELSE IF ~time_end.ok THEN time_end
    ELSE [ok |-> TRUE,
          filter |-> Some([database_name |-> f.database_name,
                           table_name |-> f.table_name,
                           time_start |-> time_start.dt,
                           time_end |-> time_end.dt,
                           min_transaction_count |-> f.min_transaction_count,
                           max_transaction_count |-> f.max_transaction_count])]

\* the records of a page or of a search: the backend's batch records
RecordLists == SeqsUpTo({BatchRecord(b) : b \in BatchIds} \cup {BrokenRecord}, MaxItems)

\* the BatchList objects client.list_batches may return
BatchLists ==
  {[batches |-> l, total_count |-> Len(l) + k, has_more |-> k > 0] :
     l \in RecordLists, k \in {0, 40}}

\* BatchSummary(...) of one record: timestamp.isoformat() needs a timestamp
batch_summary(b) ==
  IF b.timestamp = None
  THEN [ok |-> FALSE, error |-> "'NoneType' object has no attribute 'isoformat'"]
  ELSE [ok |-> TRUE,
        val |-> [batch_id |-> b.batch_id,
                 timestamp |-> isoformat(Val(b.timestamp)),
                 database_name |-> b.database_name,
                 table_names |-> b.table_names,
                 transaction_count |-> b.transaction_count,
                 merkle_root |-> b.merkle_root,
                 size_bytes |-> b.size_bytes]]

\* the loop that maps the records, given each record's outcome in list order:
\* the first that fails raises, and without one the list of the values
map_records(results) ==
  IF \E i \in 1..Len(results) : ~results[i].ok
  THEN results[CHOOSE i \in 1..Len(results) :
                 /\ ~results[i].ok
                 /\ \A j \in 1..(i - 1) : results[j].ok]
  ELSE [ok |-> TRUE, val |-> [i \in 1..Len(results) |-> results[i].val]]

\* list_batches_except echoing the limit of the request
list_batches_except_raw_limit(r, msg) ==
  Return([batches |-> <<>>, total_count |-> 0, offset |-> r.offset,
          limit |-> r.limit, has_more |-> FALSE,
          filter_applied |-> Some([error |-> msg])])

\* `except Exception as e:` of list_batches; limit is the clamped one
list_batches_except(r, msg) ==
  Return([batches |-> <<>>, total_count |-> 0, offset |-> r.offset,
          limit |-> clamp_limit(r.limit), has_more |-> FALSE,
          filter_applied |-> Some([error |-> msg])])

\* the filter echoed in the response
filter_applied(filter) ==
  IF filter = None THEN None
  ELSE LET f == Val(filter) IN
       Some([database_name |-> f.database_name, table_name |-> f.table_name,
             time_start |-> f.time_start, time_end |-> f.time_end,
             min_transaction_count |-> f.min_transaction_count,
             max_transaction_count |-> f.max_transaction_count])

list_batches(s, Requests) ==
  /\ pc[s] = "idle"
  /\ \E r \in Requests :
       LET p == batch_filter(r.filter) IN
       /\ inp' = Set(inp, s, r)
       /\ IF ~p.ok THEN
            /\ Finish(s, list_batches_except(r, p.error), [exc |-> Some(p.error)])
            /\ UNCHANGED calls
          ELSE
            /\ loc' = Set(loc, s, [exc |-> None])
            /\ calls' = Set(calls, s,
                 <<Call("list_batches",
                        [filter |-> p.filter, limit |-> clamp_limit(r.limit),
                         offset |-> r.offset, order_by |-> r.order_by])>>)
            /\ pc' = Set(pc, s, "lb_list")
            /\ UNCHANGED out
  /\ UNCHANGED <<cache, client, now>>

\* after `await etrap_client.list_batches(...)`
lb_after_list(s) ==
  /\ pc[s] = "lb_list"
  /\ Answered(s)
  /\ LET a == Answer(s)
         r == inp[s]
     IN
     IF a.st = "raised" THEN
       Finish(s, list_batches_except(r, a.msg), [exc |-> Some(a.msg)])
     ELSE
       LET batch_summaries == map_records([i \in 1..Len(a.val.batches) |-> batch_summary(a.val.batches[i])]) IN
       IF ~batch_summaries.ok THEN
         Finish(s, list_batches_except(r, batch_summaries.error),
                [exc |-> Some(batch_summaries.error)])
       ELSE
         Finish(s, Return([batches |-> batch_summaries.val,
                           total_count |-> a.val.total_count,
                           offset |-> r.offset,
                           limit |-> clamp_limit(r.limit),
                           has_more |-> a.val.has_more,
                           filter_applied |-> filter_applied(r.filter)]),
                [exc |-> None])
  /\ UNCHANGED <<inp, calls, cache, client, now>>

(***************************************************************************)
(* search_batches                                                          *)
(***************************************************************************)
CriteriaInput(h, ts, te) ==
  [transaction_hash |-> h, database_name |-> Some("sales"), table_name |-> None,
   time_start |-> ts, time_end |-> te, merkle_root |-> None,
   min_transaction_count |-> None, batch_id_pattern |-> Some("B")]

SearchBatchesRequests ==
  {[op |-> "search_batches", criteria |-> CriteriaInput(h, ts, te), max_results |-> m] :
     h \in {None, Some(TxHash)},
     ts \in {None, Some(T1), Some(BadTime)}, te \in {None, Some(T2), Some(BadTime)},
     m \in {50, MaxResults, MaxResults + 1, 3 * MaxResults}}

\* clamp_max_results without the clamp
clamp_max_results_unbounded(max_results) == max_results

\* `if max_results > 200: max_results = 200`
clamp_max_results(max_results) == IF max_results > MaxResults THEN MaxResults ELSE max_results

\* the SearchCriteria given to the backend, or the ValueError of a bound
search_criteria(c) ==
  LET time_start == parse_bound(c.time_start)
      time_end == parse_bound(c.time_end)
  IN
  IF ~time_start.ok THEN time_start
  ELSE IF ~time_end.ok THEN time_end
  ELSE [ok |-> TRUE,
        criteria |-> [transaction_hash |-> c.transaction_hash,
                      database_name |-> c.database_name,
                      table_name |-> c.table_name,
                      time_start |-> time_start.dt,
                      time_end |-> time_end.dt,
                      merkle_root |-> c.merkle_root,
                      min_transaction_count |-> c.min_transaction_count,
                      batch_id_pattern |-> c.batch_id_pattern]]

\* a match of SearchResults.matches: a batch record and why it matched
SearchMatchOf(b) ==
  [batch_id |-> b.batch_id, timestamp |-> b.timestamp, database_name |-> b.database_name,
   table_names |-> b.table_names, transaction_count |-> b.transaction_count,
   merkle_root |-> b.merkle_root, match_reason |-> "database", relevance_score |-> None]

\* the SearchResults objects client.search_batches may return
SearchResultsSet ==
  {[matches |-> [i \in 1..Len(l) |-> SearchMatchOf(l[i])]] : l \in RecordLists}

\* SearchMatch(...) of one match: timestamp.isoformat() needs a timestamp
search_match(m) ==
  IF m.timestamp = None
  THEN [ok |-> FALSE, error |-> "'NoneType' object has no attribute 'isoformat'"]
  ELSE [ok |-> TRUE,
        val |-> [batch_id |-> m.batch_id,
                 timestamp |-> isoformat(Val(m.timestamp)),
                 database_name |-> m.database_name,
                 table_names |-> m.table_names,
                 transaction_count |-> m.transaction_count,
                 merkle_root |-> m.merkle_root,
                 match_reason |-> m.match_reason,
                 relevance_score |-> m.relevance_score]]

\* the suggestions of a search without matches, in their order
NoMatchSuggestions ==
  <<"Try expanding the time range if searching by date",
    "Check if the database or table name is spelled correctly",
    "Use list_batches to see all available batches",
    "Try searching without specific criteria to see recent batches">>

\* suggestions_for attaching the suggestions to every result
suggestions_for_always(search_matches) == Some(NoMatchSuggestions)

\* `suggestions = None; if len(search_matches) == 0: suggestions = [...]`
suggestions_for(search_matches) ==
  IF Len(search_matches) = 0 THEN Some(NoMatchSuggestions) ELSE None

\* search_batches_except without its suggestion
search_batches_except_no_suggestion(msg) ==
  Return([matches |-> <<>>, total_matches |-> 0, search_time_ms |-> 0,
          search_criteria |-> [error |-> msg],
          suggestions |-> None])

\* `except Exception as e:` of search_batches
search_batches_except(msg) ==
  Return([matches |-> <<>>, total_matches |-> 0, search_time_ms |-> 0,
          search_criteria |-> [error |-> msg],
          suggestions |->
            Some(<<"An error occurred during search. Check your search criteria and try again.">>)])

search_batches(s, Requests) ==
  /\ pc[s] = "idle"
  /\ \E r \in Requests :
       LET p == search_criteria(r.criteria) IN
       /\ inp' = Set(inp, s, r)
       /\ IF ~p.ok THEN
            /\ Finish(s, search_batches_except(p.error), [exc |-> Some(p.error)])
            /\ UNCHANGED calls
          ELSE
            /\ loc' = Set(loc, s, [exc |-> None, start_time |-> now])
            /\ calls' = Set(calls, s,
                 <<Call("search_batches",
                        [criteria |-> p.criteria,
                         max_results |-> clamp_max_results(r.max_results)])>>)
            /\ pc' = Set(pc, s, "sb_search")
            /\ UNCHANGED out
  /\ UNCHANGED <<cache, client, now>>

\* after `await etrap_client.search_batches(...)`
sb_after_search(s) ==
  /\ pc[s] = "sb_search"
  /\ Answered(s)
  /\ LET a == Answer(s) IN
     IF a.st = "raised" THEN
       Finish(s, search_batches_except(a.msg), [loc[s] EXCEPT !.exc = Some(a.msg)])
     ELSE
       LET search_matches == map_records([i \in 1..Len(a.val.matches) |-> search_match(a.val.matches[i])]) IN
       IF ~search_matches.ok THEN
         Finish(s, search_batches_except(search_matches.error),
                [loc[s] EXCEPT !.exc = Some(search_matches.error)])
       ELSE
         Finish(s, Return([matches |-> search_matches.val,
                           total_matches |-> Len(search_matches.val),
                           search_time_ms |-> now - loc[s].start_time,
                           search_criteria |-> inp[s].criteria,
                           suggestions |-> suggestions_for(search_matches.val)]),
                loc[s])
  /\ UNCHANGED <<inp, calls, cache, client, now>>

(***************************************************************************)
(* The identity of the shared client                                       *)
(***************************************************************************)
\* f"{org_id}.near" on mainnet, f"{org_id}.{network}" otherwise
contract_address_of(org_id, network) ==
  IF network = "mainnet" THEN <<org_id, ".", "near">> ELSE <<org_id, ".", network>>

\* the identity properties of the ETRAPClient built from the configuration
ClientOf(org_id, network) ==
  [organization_id |-> org_id, network |-> network,
   contract_id |-> contract_address_of(org_id, network)]

(***************************************************************************)
(* get_batch                                                               *)
(***************************************************************************)
GetBatchRequests == {[op |-> "get_batch", batch_id |-> b] : b \in BatchIds}

\* BatchInfoOut from the record, the operation counts found and the client's
\* contract id; timestamp.isoformat() needs a timestamp, and an exception of
\* it reaches the outer except, which returns None
batch_info_out(result, operation_counts, contract_address) ==
  IF result.timestamp = None THEN None
  ELSE Some([batch_id |-> result.batch_id,
             timestamp |-> isoformat(Val(result.timestamp)),
             database_name |-> result.database_name,
             table_names |-> result.table_names,
             transaction_count |-> result.transaction_count,
             merkle_root |-> result.merkle_root,
             s3_location |-> result.s3_location,
             size_bytes |-> result.size_bytes,
             operation_counts |-> operation_counts,
             contract_address |-> contract_address,
             nft_token_id |-> result.batch_id])

\* entry: the await of client.get_batch
get_batch(s, Requests) ==
  /\ pc[s] = "idle"
  /\ \E r \in Requests :
       /\ inp' = Set(inp, s, r)
       /\ loc' = Set(loc, s, [exc |-> None, result |-> None])
       /\ calls' = Set(calls, s, <<Call("get_batch", [batch_id |-> r.batch_id])>>)
       /\ pc' = Set(pc, s, "gb_batch")
  /\ UNCHANGED <<out, cache, client, now>>

\* after `await etrap_client.get_batch(batch_id)`
gb_after_get_batch(s) ==
  /\ pc[s] = "gb_batch"
  /\ Answered(s)
  /\ LET a == Answer(s) IN
     IF a.st = "raised" THEN
       /\ Finish(s, Return(None), [loc[s] EXCEPT !.exc = Some(a.msg)])
       /\ UNCHANGED calls
     ELSE IF a.val = None THEN
       /\ Finish(s, Return(None), loc[s])
       /\ UNCHANGED calls
     ELSE
       /\ loc' = Set(loc, s, [loc[s] EXCEPT !.result = a.val])
       /\ calls' = Set(calls, s,
            Append(calls[s], Call("get_batch_data", [batch_id |-> inp[s].batch_id])))
       /\ pc' = Set(pc, s, "gb_data")
       /\ UNCHANGED out
  /\ UNCHANGED <<inp, cache, client, now>>

\* after `await etrap_client.get_batch_data(batch_id)`: an exception leaves
\* operation_counts None
gb_after_get_batch_data(s) ==
  /\ pc[s] = "gb_data"
  /\ Answered(s)
  /\ LET a == Answer(s)
         operation_counts ==
           IF a.st = "raised" THEN None
           ELSE IF a.val = None THEN None
           ELSE Val(a.val).operation_counts
     IN
     Finish(s, Return(batch_info_out(Val(loc[s].result), operation_counts,
                                     client.contract_id)),
            loc[s])
  /\ UNCHANGED <<inp, calls, cache, client, now>>

(***************************************************************************)
(* get_nft                                                                 *)
(***************************************************************************)
GetNftRequests == {[op |-> "get_nft", nft_token_id |-> b] : b \in BatchIds}

\* the NFTInfo the backend holds for a token
NftInfo(t) ==
  [token_id |-> t, owner_id |-> "acme.testnet",
   metadata |-> [title |-> "ETRAP batch"],
   minted_timestamp |-> IF t = "B1" THEN Some(Instant) ELSE None,
   batch_id |-> t, organization_id |-> "acme",
   merkle_root |-> IF t = "B1" THEN "root1" ELSE "root2",
   blockchain_details |-> [block_height |-> "1201"]]

\* NFTInfoOut; minted_timestamp.isoformat() needs a timestamp, and an
\* exception of it reaches the except, which returns None
nft_info_out(result) ==
  IF result.minted_timestamp = None THEN None
  ELSE Some([token_id |-> result.token_id,
             owner_id |-> result.owner_id,
             metadata |-> result.metadata,
             minted_timestamp |-> isoformat(Val(result.minted_timestamp)),
             batch_id |-> result.batch_id,
             organization_id |-> result.organization_id,
             merkle_root |-> result.merkle_root,
             blockchain_details |-> result.blockchain_details])

\* entry: the await of client.get_nft_info
get_nft(s, Requests) ==
  /\ pc[s] = "idle"
  /\ \E r \in Requests :
       /\ inp' = Set(inp, s, r)
       /\ loc' = Set(loc, s, [exc |-> None])
       /\ calls' = Set(calls, s, <<Call("get_nft_info", [nft_token_id |-> r.nft_token_id])>>)
       /\ pc' = Set(pc, s, "gn_info")
  /\ UNCHANGED <<out, cache, client, now>>

\* after `await etrap_client.get_nft_info(nft_token_id)`
\* gn_after_get_nft_info holding its response back while another request
\* is in flight
gn_after_get_nft_info_exclusive(s) ==
  /\ pc[s] = "gn_info"
  /\ Answered(s)
  /\ \A t \in Slots \ {s} : pc[t] \in {"idle", "done"}
  /\ LET a == Answer(s) IN
     IF a.st = "raised" THEN Finish(s, Return(None), [exc |-> Some(a.msg)])
     ELSE IF a.val = None THEN Finish(s, Return(None), loc[s])
     ELSE Finish(s, Return(nft_info_out(Val(a.val))), loc[s])
  /\ UNCHANGED <<inp, calls, cache, client, now>>

gn_after_get_nft_info(s) ==
  /\ pc[s] = "gn_info"
  /\ Answered(s)
  /\ LET a == Answer(s) IN
     IF a.st = "raised" THEN Finish(s, Return(None), [exc |-> Some(a.msg)])
     ELSE IF a.val = None THEN Finish(s, Return(None), loc[s])
     ELSE Finish(s, Return(nft_info_out(Val(a.val))), loc[s])
  /\ UNCHANGED <<inp, calls, cache, client, now>>

(***************************************************************************)
(* get_contract_info                                                       *)
(***************************************************************************)
GetContractInfoRequests == {[op |-> "get_contract_info"]}

\* the ContractInfo the backend may hold
ContractRecord ==
  [contract_id |-> "registry.acme.testnet", total_batches |-> 42,
   total_transactions |-> 1200, earliest_batch |-> Some(Instant), latest_batch |-> None,
   supported_databases |-> <<"sales", "hr">>]

\* the ContractStats the backend may hold
ContractStatsRecord == [total_batches |-> 42, total_size_bytes |-> 86016]

\* ContractInfoOut built from the backend's record
contract_info_out(contract_info, the_client) ==
  [contract_address |-> contract_info.contract_id,
   organization_id |-> the_client.organization_id,
   network |-> the_client.network,
   total_batches |-> contract_info.total_batches,
   total_transactions |-> contract_info.total_transactions,
   oldest_batch_timestamp |-> IF contract_info.earliest_batch # None
                              THEN Some(isoformat(Val(contract_info.earliest_batch)))
                              ELSE None,
   newest_batch_timestamp |-> IF contract_info.latest_batch # None
                              THEN Some(isoformat(Val(contract_info.latest_batch)))
                              ELSE None,
   databases |-> contract_info.supported_databases,
   contract_version |-> None,
   treasury_address |-> None]

\* the fallback built from the client's configuration, in the else branch
\* (contract_version None) and in the except clause (f"Error: {str(e)}")
contract_info_fallback(the_client, contract_version) ==
  [contract_address |-> contract_address_of(the_client.organization_id, the_client.network),
   organization_id |-> the_client.organization_id,
   network |-> the_client.network,
   total_batches |-> 0,
   total_transactions |-> 0,
   oldest_batch_timestamp |-> None,
   newest_batch_timestamp |-> None,
   databases |-> <<>>,
   contract_version |-> contract_version,
   treasury_address |-> None]

\* `except Exception as e:` of get_contract_info
get_contract_info_except(the_client, msg) ==
  Return(contract_info_fallback(the_client, Some(<<"Error: ", msg>>)))

\* entry: the await of client.get_contract_info
get_contract_info(s, Requests) ==
  /\ pc[s] = "idle"
  /\ \E r \in Requests :
       /\ inp' = Set(inp, s, r)
       /\ loc' = Set(loc, s, [exc |-> None, contract_info |-> None])
       /\ calls' = Set(calls, s, <<Call("get_contract_info", <<>>)>>)
       /\ pc' = Set(pc, s, "ci_info")
  /\ UNCHANGED <<out, cache, client, now>>

\* after `await etrap_client.get_contract_info()`: the await of
\* client.get_contract_stats follows in the same try
ci_after_get_contract_info(s) ==
  /\ pc[s] = "ci_info"
  /\ Answered(s)
  /\ LET a == Answer(s) IN
     IF a.st = "raised" THEN
       /\ Finish(s, get_contract_info_except(client, a.msg),
                 [loc[s] EXCEPT !.exc = Some(a.msg)])
       /\ UNCHANGED calls
     ELSE
       /\ loc' = Set(loc, s, [loc[s] EXCEPT !.contract_info = a.val])
       /\ calls' = Set(calls, s, Append(calls[s], Call("get_contract_stats", <<>>)))
       /\ pc' = Set(pc, s, "ci_stats")
       /\ UNCHANGED out
  /\ UNCHANGED <<inp, cache, client, now>>

\* after `await etrap_client.get_contract_stats()`; its value is not used
ci_after_get_contract_stats(s) ==
  /\ pc[s] = "ci_stats"
  /\ Answered(s)
  /\ LET a == Answer(s) IN
     IF a.st = "raised" THEN
       Finish(s, get_contract_info_except(client, a.msg), [loc[s] EXCEPT !.exc = Some(a.msg)])
     ELSE IF loc[s].contract_info # None THEN
       Finish(s, Return(contract_info_out(Val(loc[s].contract_info), client)), loc[s])
     ELSE
       Finish(s, Return(contract_info_fallback(client, None)), loc[s])
  /\ UNCHANGED <<inp, calls, cache, client, now>>

(***************************************************************************)
(* get_config                                                              *)
(***************************************************************************)
GetConfigRequests == {[op |-> "get_config"]}

\* ETRAPConfigOut: the configuration the client was built from, with the
\* defaults of the optional settings
config_out(the_client) ==
  [organization_id |-> the_client.organization_id,
   network |-> the_client.network,
   contract_id |-> contract_address_of(the_client.organization_id, the_client.network),
   timeout |-> 30,
   cache_ttl |-> 300,
   max_retries |-> 3,
   aws_region |-> "us-west-2",
   rpc_endpoint |-> None]

\* get_config makes no backend call: it returns at once
get_config(s, Requests) ==
  /\ pc[s] = "idle"
  /\ \E r \in Requests :
       /\ inp' = Set(inp, s, r)
       /\ Finish(s, Return(config_out(client)), [exc |-> None])
  /\ UNCHANGED <<calls, cache, client, now>>

(***************************************************************************)
(* The backend client: it completes the pending call of a request          *)
(***************************************************************************)
client_get_recent_batches(s, Samples) ==
  /\ Awaiting(s, "_get_recent_batches")
  /\ \E res \in {Raised(BackendError)} \cup {Returned(l) : l \in Samples} :
       calls' = Complete(s, res)
  /\ now' = now + 1
  /\ UNCHANGED <<pc, inp, loc, out, cache, client>>

client_verify_transaction(s, Results) ==
  /\ Awaiting(s, "verify_transaction")
  /\ \E res \in {Raised(BackendError)} \cup {Returned(r) : r \in Results} :
       calls' = Complete(s, res)
  /\ now' = now + 1
  /\ UNCHANGED <<pc, inp, loc, out, cache, client>>

\* the batch record of the id asked for, or None for a batch it does not know
client_get_batch(s) ==
  /\ Awaiting(s, "get_batch")
  /\ \E res \in {Raised(BackendError), Returned(None),
                 Returned(Some(BatchRecord(Last(calls[s]).args.batch_id)))} :
       calls' = Complete(s, res)
  /\ now' = now + 1
  /\ UNCHANGED <<pc, inp, loc, out, cache, client>>

\* the batch payload; fetching one leaves the client's cache under that
\* batch's key in any of the states Entries
client_get_batch_data(s, Entries) ==
  /\ Awaiting(s, "get_batch_data")
  /\ \/ /\ \E res \in {Raised(BackendError), Returned(None)} : calls' = Complete(s, res)
        /\ UNCHANGED cache
     \/ /\ calls' = Complete(s, Returned(Some(BatchData(Last(calls[s]).args.batch_id))))
        /\ \E e \in Entries :
             cache' = [cache EXCEPT ![cache_key(Last(calls[s]).args.batch_id)] = e]
  /\ now' = now + 1
  /\ UNCHANGED <<pc, inp, loc, out, client>>

client_verify_batch(s) ==
  /\ Awaiting(s, "verify_batch")
  /\ \E res \in {Raised(BackendError)} \cup
                {Returned(r) :
                   r \in BatchVerificationResults(Len(Last(calls[s]).args.transactions))} :
       calls' = Complete(s, res)
  /\ now' = now + 1
  /\ UNCHANGED <<pc, inp, loc, out, cache, client>>

client_list_batches(s, Lists) ==
  /\ Awaiting(s, "list_batches")
  /\ \E res \in {Raised(BackendError)} \cup {Returned(r) : r \in Lists} :
       calls' = Complete(s, res)
  /\ now' = now + 1
  /\ UNCHANGED <<pc, inp, loc, out, cache, client>>

client_search_batches(s, Results) ==
  /\ Awaiting(s, "search_batches")
  /\ \E res \in {Raised(BackendError)} \cup {Returned(r) : r \in Results} :
       calls' = Complete(s, res)
  /\ now' = now + 1
  /\ UNCHANGED <<pc, inp, loc, out, cache, client>>

client_get_nft_info(s) ==
  /\ Awaiting(s, "get_nft_info")
  /\ \E res \in {Raised(BackendError), Returned(None),
                 Returned(Some(NftInfo(Last(calls[s]).args.nft_token_id)))} :
       calls' = Complete(s, res)
  /\ now' = now + 1
  /\ UNCHANGED <<pc, inp, loc, out, cache, client>>

client_get_contract_info(s) ==
  /\ Awaiting(s, "get_contract_info")
  /\ \E res \in {Raised(BackendError), Returned(None), Returned(Some(ContractRecord))} :
       calls' = Complete(s, res)
  /\ now' = now + 1
  /\ UNCHANGED <<pc, inp, loc, out, cache, client>>

client_get_contract_stats(s) ==
  /\ Awaiting(s, "get_contract_stats")
  /\ \E res \in {Raised(BackendError), Returned(None), Returned(Some(ContractStatsRecord))} :
       calls' = Complete(s, res)
  /\ now' = now + 1
  /\ UNCHANGED <<pc, inp, loc, out, cache, client>>

(***************************************************************************)
(* Specifications                                                          *)
(***************************************************************************)
Init ==
  /\ pc = [s \in Slots |-> "idle"]
  /\ inp = [s \in Slots |-> None]
  /\ loc = [s \in Slots |-> NoLocals]
  /\ calls = [s \in Slots |-> <<>>]
  /\ out = [s \in Slots |-> None]
  /\ cache = [k \in CacheKeys |-> None]
  /\ client = ClientOf("acme", "testnet")
  /\ now = 0

\* one request with a few hints, and any answers of the backend
Next ==
  \E s \in {"r1"} :
    \/ verify_transaction(s, VerifyTransactionRequests(FewHints))
    \/ vt_after_recent_batches(s)
    \/ vt_after_verify(s)
    \/ vt_after_get_batch(s)
    \/ vt_after_get_batch_data(s)
    \/ verify_batch(s, VerifyBatchRequests(FewHints, TransactionLists, BOOLEAN))
    \/ vb_after_verify(s)
    \/ list_batches(s, ListBatchesRequests)
    \/ lb_after_list(s)
    \/ search_batches(s, SearchBatchesRequests)
    \/ sb_after_search(s)
    \/ client_get_recent_batches(s, RecentSamples)
    \/ client_verify_transaction(s, VerificationResults)
    \/ client_get_batch(s)
    \/ client_get_batch_data(s, CacheEntries)
    \/ client_verify_batch(s)
    \/ client_list_batches(s, BatchLists)
    \/ client_search_batches(s, SearchResultsSet)

Spec == Init /\ [][Next]_vars

\* one request with any combination of hints, and a few answers of the backend
NextHints ==
  \E s \in {"r1"} :
    \/ verify_transaction(s, VerifyTransactionRequests(AllHints))
    \/ vt_after_recent_batches(s)
    \/ vt_after_verify(s)
    \/ vt_after_get_batch(s)
    \/ vt_after_get_batch_data(s)
    \/ verify_batch(s, VerifyBatchRequests(AllHints, {<<>>, <<TransactionData>>}, {TRUE}))
    \/ vb_after_verify(s)
    \/ list_batches(s, ListBatchesRequests)
    \/ lb_after_list(s)
    \/ search_batches(s, SearchBatchesRequests)
    \/ sb_after_search(s)
    \/ client_get_recent_batches(s, FewRecentSamples)
    \/ client_verify_transaction(s, FewVerificationResults)
    \/ client_get_batch(s)
    \/ client_get_batch_data(s, FewCacheEntries)
    \/ client_verify_batch(s)
    \/ client_list_batches(s, BatchLists)
    \/ client_search_batches(s, SearchResultsSet)

SpecHints == Init /\ [][NextHints]_vars

\* the client may be configured for either network
Networks == {"testnet", "mainnet"}

InitAnyNetwork ==
  /\ pc = [s \in Slots |-> "idle"]
  /\ inp = [s \in Slots |-> None]
  /\ loc = [s \in Slots |-> NoLocals]
  /\ calls = [s \in Slots |-> <<>>]
  /\ out = [s \in Slots |-> None]
  /\ cache = [k \in CacheKeys |-> None]
  /\ \E n \in Networks : client = ClientOf("acme", n)
  /\ now = 0

\* one request to a lookup or configuration tool
NextTools ==
  \E s \in {"r1"} :
    \/ get_batch(s, GetBatchRequests)
    \/ gb_after_get_batch(s)
    \/ gb_after_get_batch_data(s)
    \/ get_nft(s, GetNftRequests)
    \/ gn_after_get_nft_info(s)
    \/ get_contract_info(s, GetContractInfoRequests)
    \/ ci_after_get_contract_info(s)
    \/ ci_after_get_contract_stats(s)
    \/ get_config(s, GetConfigRequests)
    \/ client_get_batch(s)
    \/ client_get_batch_data(s, FewCacheEntries)
    \/ client_get_nft_info(s)
    \/ client_get_contract_info(s)
    \/ client_get_contract_stats(s)

SpecTools == InitAnyNetwork /\ [][NextTools]_vars

\* the requests of the concurrent runs: one of each operation
ConcurrentVerifyTransactionRequests ==
  {r \in VerifyTransactionRequests({None}) :
     r.timeout = None /\ ~r.use_contract_verification}

ConcurrentVerifyBatchRequests == VerifyBatchRequests({None}, {<<>>}, {FALSE})

ConcurrentListBatchesRequests ==
  {r \in ListBatchesRequests :
     r.filter = None /\ r.limit = 100 /\ r.offset = 7 /\ r.order_by = "timestamp_desc"}

ConcurrentSearchBatchesRequests ==
  {r \in SearchBatchesRequests :
     /\ r.criteria.transaction_hash = None
     /\ r.criteria.time_start = None /\ r.criteria.time_end = None
     /\ r.max_results = 50}

\* the answers the backend gives to verify_transaction in the concurrent runs
ConcurrentVerificationResults ==
  {r \in FewVerificationResults : r.operation_type = None}

\* the answers the backend gives to list_batches and search_batches in the
\* concurrent runs: nothing, or the one batch
FewBatchLists == {l \in BatchLists : l.batches \in {<<>>, <<BatchRecord("B1")>>} /\ ~l.has_more}

FewSearchResults == {r \in SearchResultsSet : Len(r.matches) = 0}

\* a request entering its handler, up to the first await
Start(s) ==
  \/ verify_transaction(s, ConcurrentVerifyTransactionRequests)
  \/ verify_batch(s, ConcurrentVerifyBatchRequests)
  \/ list_batches(s, ConcurrentListBatchesRequests)
  \/ search_batches(s, ConcurrentSearchBatchesRequests)
  \/ get_batch(s, GetBatchRequests)
  \/ get_nft(s, {r \in GetNftRequests : r.nft_token_id = "B1"})
  \/ get_contract_info(s, GetContractInfoRequests)
  \/ get_config(s, GetConfigRequests)

\* a handler resumed at its await, up to the next await or its return
Resume(s) ==
  \/ vt_after_recent_batches(s)
  \/ vt_after_verify(s)
  \/ vt_after_get_batch(s)
  \/ vt_after_get_batch_data(s)
  \/ vb_after_verify(s)
  \/ lb_after_list(s)
  \/ sb_after_search(s)
  \/ gb_after_get_batch(s)
  \/ gb_after_get_batch_data(s)
  \/ gn_after_get_nft_info(s)
  \/ ci_after_get_contract_info(s)
  \/ ci_after_get_contract_stats(s)

\* the steps of one request
Step(s) == Start(s) \/ Resume(s)

\* the backend completing the pending call of one request
BackendStep(s) ==
  \/ client_get_recent_batches(s, {<<>>})
  \/ client_verify_transaction(s, ConcurrentVerificationResults)
  \/ client_get_batch(s)
  \/ client_get_batch_data(s, FewCacheEntries)
  \/ client_verify_batch(s)
  \/ client_list_batches(s, FewBatchLists)
  \/ client_search_batches(s, FewSearchResults)
  \/ client_get_nft_info(s)
  \/ client_get_contract_info(s)
  \/ client_get_contract_stats(s)

\* two requests in flight, interleaved at their awaits
NextConcurrent == \E s \in Slots : Step(s) \/ BackendStep(s)

SpecConcurrent == Init /\ [][NextConcurrent]_vars

\* the cache entries of the runs with fairness: absent or not a dict, so that
\* the tier-2 step ends without a scan
LiveCacheEntries == {e \in CacheEntries : e = None \/ Val(e).kind = "malformed"}

LiveBackendStep(s) ==
  \/ client_get_recent_batches(s, {<<>>})
  \/ client_verify_transaction(s, ConcurrentVerificationResults)
  \/ client_get_batch(s)
  \/ client_get_batch_data(s, LiveCacheEntries)
  \/ client_verify_batch(s)
  \/ client_list_batches(s, FewBatchLists)
  \/ client_search_batches(s, FewSearchResults)
  \/ client_get_nft_info(s)
  \/ client_get_contract_info(s)
  \/ client_get_contract_stats(s)

NextLive == \E s \in Slots : Step(s) \/ LiveBackendStep(s)

\* the event loop resumes every handler whose awaited call has completed, and
\* every backend call returns or raises; no request has to arrive
SpecLive ==
  /\ Init
  /\ [][NextLive]_vars
  /\ \A s \in Slots : WF_vars(Resume(s)) /\ WF_vars(LiveBackendStep(s))

(***************************************************************************)
(* Properties                                                              *)
(***************************************************************************)
\* the request of slot s has ended and was a call of tool op
DoneOp(s, op) == pc[s] = "done" /\ inp[s].op = op

\* what the handler of slot s handed back: [kind, val]
Response(s) == Val(out[s])

CallsTo(s, fn) == {i \in DOMAIN calls[s] : calls[s][i].fn = fn}

RaisedIn(s, fn) == \E i \in CallsTo(s, fn) : calls[s][i].res.st = "raised"

ReturnedFrom(s, fn) == {calls[s][i].res.val : i \in {j \in CallsTo(s, fn) : calls[s][j].res.st = "returned"}}

\* the error result of verify_transaction with message msg
IsErrorResult(r, msg) ==
  /\ r.verified = FALSE
  /\ r.transaction_hash = ""
  /\ r.error = Some(msg)
  /\ r.processing_time_ms = 0

IsoError == "Invalid isoformat string: 'yesterday'"

\* time_start and time_end of a request, wherever its tool keeps them
TimeFields(r) ==
  CASE r.op \in {"verify_transaction", "verify_batch"} ->
         IF r.hints = None THEN [time_start |-> None, time_end |-> None]
         ELSE [time_start |-> Val(r.hints).time_start, time_end |-> Val(r.hints).time_end]
    [] r.op = "list_batches" ->
         IF r.filter = None THEN [time_start |-> None, time_end |-> None]
         ELSE [time_start |-> Val(r.filter).time_start, time_end |-> Val(r.filter).time_end]
    [] r.op = "search_batches" ->
         [time_start |-> r.criteria.time_start, time_end |-> r.criteria.time_end]

TimedOps == {"verify_transaction", "verify_batch", "list_batches", "search_batches"}

\* the typed failure of each tool, carrying msg
TypedFailure(r, v, msg) ==
  CASE r.op = "verify_transaction" -> IsErrorResult(v, msg)
    [] r.op = "verify_batch" ->
         /\ v.summary.error = Some(msg)
         /\ v.verified_count = 0
         /\ v.failed_count = Len(r.transactions)
         /\ v.individual_results = <<>>
    [] r.op = "list_batches" ->
         /\ v.filter_applied = Some([error |-> msg])
         /\ v.batches = <<>>
         /\ v.total_count = 0
    [] r.op = "search_batches" ->
         /\ v.search_criteria = [error |-> msg]
         /\ v.matches = <<>>
         /\ v.total_matches = 0

HintsBothBoundsOneMalformed(r) ==
  LET t == TimeFields(r) IN
  /\ t.time_start # None
  /\ t.time_end # None
  /\ (t.time_start = Some(BadTime) \/ t.time_end = Some(BadTime))

\* C1 as stated: verify_transaction hands back exactly one result, and if hint
\* parsing or any backend call (_get_recent_batches, verify_transaction,
\* get_batch, get_batch_data) raised, that result is the error result with the
\* exception's message.
C1_AnyRaiseGivesErrorResult ==
  \A s \in Slots :
    DoneOp(s, "verify_transaction") =>
      /\ Response(s).kind = "return"
      /\ HintsBothBoundsOneMalformed(inp[s]) => IsErrorResult(Response(s).val, IsoError)
      /\ (\E i \in DOMAIN calls[s] : calls[s][i].res.st = "raised")
           => IsErrorResult(Response(s).val, BackendError)

\* C1 amended: no exception leaves verify_transaction and a request has a
\* result exactly when it has ended; the result is the error result with the
\* exception's message if hint parsing, the backend's verify_transaction or
\* get_batch raised; an exception of _get_recent_batches or get_batch_data is
\* caught where it occurs: without one of the former, the result is the one
\* composed from the backend's verification, not the error result.
C1_OuterHandlerGivesErrorResult ==
  \A s \in Slots :
    /\ (out[s] # None) <=> (pc[s] = "done")
    /\ DoneOp(s, "verify_transaction") =>
         /\ Response(s).kind = "return"
         /\ HintsBothBoundsOneMalformed(inp[s]) => IsErrorResult(Response(s).val, IsoError)
         /\ (RaisedIn(s, "verify_transaction") \/ RaisedIn(s, "get_batch"))
              => IsErrorResult(Response(s).val, BackendError)
         /\ (/\ ~HintsBothBoundsOneMalformed(inp[s])
             /\ ~RaisedIn(s, "verify_transaction")
             /\ ~RaisedIn(s, "get_batch"))
              => /\ Response(s).val.transaction_hash = TxHash
                 /\ Response(s).val.search_info # None

\* C1 witness: get_batch raised after a successful verification and the
\* request ended with the error result
C1_Witness ==
  \E s \in Slots :
    /\ DoneOp(s, "verify_transaction")
    /\ RaisedIn(s, "get_batch")
    /\ Response(s).kind = "return"
    /\ IsErrorResult(Response(s).val, BackendError)

HintsAllUnset(hints) ==
  \/ hints = None
  \/ LET h == Val(hints) IN
     /\ ~Truthy(h.batch_id)
     /\ ~Truthy(h.database_name)
     /\ ~Truthy(h.table_name)
     /\ ~Truthy(h.expected_operation)
     /\ ~(Truthy(h.time_start) /\ Truthy(h.time_end))

\* C3: the hints the backend's verify call receives, in verify_transaction
\* and in verify_batch, are absent iff the five hint fields of the request
\* are all unset, and a hints object that is passed has a field that is set.
C3_HintsAbsentIffAllUnset ==
  \A s \in Slots :
    \A i \in CallsTo(s, "verify_transaction") \cup CallsTo(s, "verify_batch") :
      LET vh == calls[s][i].args.hints IN
      /\ (vh = None) <=> HintsAllUnset(inp[s].hints)
      /\ vh # None =>
           \/ Truthy(Val(vh).batch_id)
           \/ Truthy(Val(vh).database_name)
           \/ Truthy(Val(vh).table_name)
           \/ Truthy(Val(vh).expected_operation)
           \/ Val(vh).time_range # None

\* C3 witness: verify_transaction passed hints whose only set field is the
\* time range, and another request form passed none for an empty hints object
C3_Witness ==
  \E s \in Slots :
    \E i \in CallsTo(s, "verify_transaction") :
      LET vh == calls[s][i].args.hints IN
      /\ vh # None
      /\ Val(vh).time_range # None
      /\ Val(vh).batch_id = None
      /\ Val(vh).database_name = None
      /\ Val(vh).table_name = None
      /\ Val(vh).expected_operation = None

\* C4 as stated: a verify_transaction result with verified = false has no
\* batch_info, no merkle_proof and no operation_type.
C4_UnverifiedCarriesNoProof ==
  \A s \in Slots :
    (/\ DoneOp(s, "verify_transaction")
     /\ Response(s).kind = "return"
     /\ ~Response(s).val.verified)
      => /\ Response(s).val.batch_info = None
         /\ Response(s).val.merkle_proof = None
         /\ Response(s).val.operation_type = None

HasBatchHint(r) == r.hints # None /\ Truthy(Val(r.hints).batch_id)

\* C5: a verify_transaction request with a batch_id hint never calls
\* _get_recent_batches, and when it ends outside the except clause its
\* search_info is {total_batches: 1, batch_position: 1, direct_lookup: true},
\* whatever the backend answered.
C5_DirectLookupStatistics ==
  \A s \in Slots :
    (pc[s] # "idle" /\ inp[s].op = "verify_transaction" /\ HasBatchHint(inp[s])) =>
      /\ CallsTo(s, "_get_recent_batches") = {}
      /\ (pc[s] = "done" /\ loc[s].exc = None) =>
           /\ Response(s).kind = "return"
           /\ Response(s).val.search_info =
                Some([total_batches |-> 1, batch_position |-> 1, direct_lookup |-> Some(TRUE)])

\* C5 witness: a request hinting batch B1 ended verified in batch B2, the
\* batch record found
C5_Witness ==
  \E s \in Slots :
    /\ DoneOp(s, "verify_transaction")
    /\ HasBatchHint(inp[s])
    /\ loc[s].exc = None
    /\ Response(s).val.verified
    /\ Response(s).val.batch_id = Some("B2")
    /\ Response(s).val.batch_info # None

\* the backend's verification returned verified = true
BackendVerified(s) == \E r \in ReturnedFrom(s, "verify_transaction") : r.verified

\* C6 as stated: once the backend's verify_transaction returned verified =
\* true the result is verified = true, whatever get_batch and get_batch_data
\* do, raising included.
C6_VerifiedSurvivesEnrichment ==
  \A s \in Slots :
    (DoneOp(s, "verify_transaction") /\ BackendVerified(s)) =>
      /\ Response(s).kind = "return"
      /\ Response(s).val.verified

\* C7: when the backend reports verified = true with batch_id B, get_batch is
\* called once, with B; a record it returns becomes batch_info {database,
\* tables, transaction_count, timestamp}; when it returns None the result
\* stays verified with no batch_info; in both cases, without a batch_id hint,
\* search_info.direct_lookup is absent.
C7_BatchInfoFromGetBatch ==
  \A s \in Slots :
    \A r \in (IF DoneOp(s, "verify_transaction")
              THEN {x \in ReturnedFrom(s, "verify_transaction") : x.verified /\ x.batch_id # None}
              ELSE {}) :
      /\ Cardinality(CallsTo(s, "get_batch")) = 1
      /\ \A i \in CallsTo(s, "get_batch") :
           /\ calls[s][i].args = [batch_id |-> Val(r.batch_id)]
           /\ calls[s][i].res.st = "returned" =>
                LET batch == calls[s][i].res.val
                    v == Response(s).val
                IN
                /\ Response(s).kind = "return"
                /\ v.verified
                /\ batch = None => v.batch_info = None
                /\ batch # None =>
                     v.batch_info = Some([database |-> Val(batch).database_name,
                                          tables |-> Val(batch).table_names,
                                          transaction_count |-> Val(batch).transaction_count,
                                          timestamp |-> Val(Val(batch).timestamp)])
                /\ ~HasBatchHint(inp[s]) =>
                     /\ v.search_info # None
                     /\ Val(v.search_info).direct_lookup \in {None, Some(FALSE)}

\* C7 witness: the scenario of the repository's test: a time range hint, the
\* backend verifies in B2, and batch_info is B2's record
C7_Witness ==
  \E s \in Slots :
    /\ DoneOp(s, "verify_transaction")
    /\ inp[s].hints = HintsInput(None, None, None, None, Some(T1), Some(T2))
    /\ Response(s).val.verified
    /\ Response(s).val.batch_id = Some("B2")
    /\ Response(s).val.batch_info # None
    /\ Val(Response(s).val.batch_info).database = "hr"
    /\ Val(Response(s).val.search_info).direct_lookup = None

\* C8 as stated: a verified result carries the operation_type of the
\* backend's verification response whenever that response had one, whatever
\* get_batch and get_batch_data return (stated for the responses that name
\* a batch).
C8_BackendOperationTypeKept ==
  \A s \in Slots :
    \A r \in (IF DoneOp(s, "verify_transaction")
              THEN {x \in ReturnedFrom(s, "verify_transaction") :
                      x.batch_id # None /\ x.operation_type # None}
              ELSE {}) :
      (Response(s).kind = "return" /\ Response(s).val.verified)
        => Response(s).val.operation_type = r.operation_type

\* the cached representation tier 2 of slot s read, if it read a well-formed
\* one: the transaction list under the key of the verified batch
Tier2Transactions(s) ==
  LET data == ReturnedFrom(s, "get_batch_data")
      b == Val(Val(loc[s].result).batch_id)
      entry == cache[<<"batch_data_", b>>]
  IN
  IF /\ DoneOp(s, "verify_transaction")
     /\ CallsTo(s, "get_batch_data") # {}
     /\ data # {} /\ None \notin data
     /\ entry # None
     /\ Val(entry).kind = "dict"
     /\ Val(entry).transactions # None
  THEN Some(Val(Val(entry).transactions))
  ELSE None

HashMatches(tx) == tx.metadata # None /\ Val(tx.metadata).hash = Some(TxHash)

\* tier 2 of slot s ran and found nothing: get_batch_data returned nothing,
\* the cache has no entry for the batch, or no cached entry has the hash
Tier2YieldsNone(s) ==
  /\ DoneOp(s, "verify_transaction")
  /\ CallsTo(s, "get_batch_data") # {}
  /\ ~RaisedIn(s, "get_batch_data")
  /\ \/ None \in ReturnedFrom(s, "get_batch_data")
     \/ cache[<<"batch_data_", Val(Val(loc[s].result).batch_id)>>] = None
     \/ /\ Tier2Transactions(s) # None
        /\ \A i \in DOMAIN Val(Tier2Transactions(s)) : ~HashMatches(Val(Tier2Transactions(s))[i])

\* C9 as stated: a verified result always has an operation_type; when the
\* backend reported none and tier 2 found none, it is "INSERT".
C9_DefaultsToInsert ==
  \A s \in Slots :
    Tier2YieldsNone(s) =>
      /\ Response(s).val.verified
      /\ Response(s).val.operation_type = Some("INSERT")

\* the integer in the last '-'-delimited token of the identifiers of the
\* model, None for one without such an integer
PositionOf(id) ==
  CASE id = Some(<<"B", "1", "-", "0">>) -> Some(0)
    [] id = Some(<<"B", "1", "-", "1", "2">>) -> Some(12)
    [] id = Some(<<"B", "-", "1", "-", "3">>) -> Some(3)
    [] OTHER -> None

FirstIndex(S) == CHOOSE i \in S : \A j \in S : i <= j

\* C10 as stated: when the cached representation holds a transaction with
\* the verified hash that records an operation_type, the result's
\* operation_type is that of the first such entry and position is the integer
\* of the last '-'-delimited token of its identifier.
C10_FirstTypedEntryDecides ==
  \A s \in Slots :
    Tier2Transactions(s) # None =>
      LET txs == Val(Tier2Transactions(s))
          typed == {i \in DOMAIN txs :
                      HashMatches(txs[i]) /\ Val(txs[i].metadata).operation_type # None}
      IN
      typed # {} =>
        LET md == Val(txs[FirstIndex(typed)].metadata) IN
        /\ Response(s).val.operation_type = md.operation_type
        /\ Response(s).val.position # None
        /\ Response(s).val.position = PositionOf(md.transaction_id)

\* C10 amended: when the cached representation holds a transaction with the
\* verified hash, the first such entry in list order decides, whether it
\* records an operation_type or not: if the last '-'-delimited token of its
\* identifier is an integer, operation_type is the entry's ("INSERT" for an
\* entry that records none) and position is that integer; if the identifier
\* is missing or not numeric, the lookup has failed: operation_type is
\* "INSERT" and position is absent.  The result stays verified.
C10_FirstHashEntryDecides ==
  \A s \in Slots :
    Tier2Transactions(s) # None =>
      LET txs == Val(Tier2Transactions(s))
          hits == {i \in DOMAIN txs : HashMatches(txs[i])}
      IN
      hits # {} =>
        LET md == Val(txs[FirstIndex(hits)].metadata)
            v == Response(s).val
        IN
        /\ v.verified
        /\ v.position = PositionOf(md.transaction_id)
        /\ v.operation_type =
             IF PositionOf(md.transaction_id) = None \/ md.operation_type = None
             THEN Some("INSERT") ELSE md.operation_type

\* C10 witness: the entry found records DELETE under identifier B1-12, after
\* an entry of another transaction
C10_Witness ==
  \E s \in Slots :
    /\ Tier2Transactions(s) # None
    /\ Len(Val(Tier2Transactions(s))) = 2
    /\ ~HashMatches(Val(Tier2Transactions(s))[1])
    /\ HashMatches(Val(Tier2Transactions(s))[2])
    /\ Response(s).val.operation_type = Some("DELETE")
    /\ Response(s).val.position = Some(12)

\* the tier-2 lookup of slot s failed: get_batch_data raised, or it returned
\* a payload and the cached representation is malformed or the entry with the
\* verified hash has a missing or non-numeric identifier
Tier2Failed(s) ==
  /\ DoneOp(s, "verify_transaction")
  /\ CallsTo(s, "get_batch_data") # {}
  /\ \/ RaisedIn(s, "get_batch_data")
     \/ LET entry == cache[<<"batch_data_", Val(Val(loc[s].result).batch_id)>>] IN
        /\ ReturnedFrom(s, "get_batch_data") # {}
        /\ None \notin ReturnedFrom(s, "get_batch_data")
        /\ entry # None
        /\ \/ Val(entry).kind # "dict"
           \/ /\ Tier2Transactions(s) # None
              /\ LET txs == Val(Tier2Transactions(s))
                     hits == {i \in DOMAIN txs : HashMatches(txs[i])}
                 IN
                 /\ hits # {}
                 /\ PositionOf(Val(txs[FirstIndex(hits)].metadata).transaction_id) = None

\* C11: a failure inside the tier-2 lookup (get_batch_data raising, a
\* malformed cached representation, a missing or non-numeric transaction
\* identifier) is caught locally: the request returns the result of the
\* backend's verification, verified, without an error, and with
\* operation_type "INSERT".
C11_Tier2FailureGivesInsert ==
  \A s \in Slots :
    Tier2Failed(s) =>
      /\ Response(s).kind = "return"
      /\ Response(s).val.verified
      /\ Response(s).val.transaction_hash = TxHash
      /\ Response(s).val.error = None
      /\ Response(s).val.operation_type = Some("INSERT")
      /\ Response(s).val.batch_info # None

\* C11 witness: get_batch_data returned, the entry with the verified hash
\* records UPDATE under the identifier B1-x, and the result is a verified
\* INSERT
C11_Witness ==
  \E s \in Slots :
    /\ Tier2Failed(s)
    /\ ~RaisedIn(s, "get_batch_data")
    /\ Tier2Transactions(s) =
         Some(<<TxEntry(Some(TxHash), Some("UPDATE"), Some(<<"B", "1", "-", "x">>))>>)
    /\ Response(s).val.verified
    /\ Response(s).val.operation_type = Some("INSERT")

\* the 1-based index of the first entry of sample with batch id b, 0 without one
SamplePosition(sample, b) ==
  LET at == {i \in DOMAIN sample : sample[i].batch_id = b} IN
  IF at = {} THEN 0 ELSE FirstIndex(at)

\* C12 as stated: without a batch_id hint, a verified result for batch B has
\* search_info.batch_position equal to the 1-based index of the first entry
\* with batch id B in the sample _get_recent_batches returned (0 when B is not
\* in it) and search_info.total_batches equal to the sample's length.
C12_PositionInSample ==
  \A s \in Slots :
    (/\ DoneOp(s, "verify_transaction")
     /\ ~HasBatchHint(inp[s])
     /\ Response(s).kind = "return"
     /\ Response(s).val.verified
     /\ Response(s).val.batch_id # None) =>
      \A sample \in ReturnedFrom(s, "_get_recent_batches") :
        LET si == Val(Response(s).val.search_info) IN
        /\ si.total_batches = Len(sample)
        /\ si.batch_position = SamplePosition(sample, Val(Response(s).val.batch_id))

\* the uniform failure of verify_batch for request r with message msg
UniformBatchFailure(r, v, msg) ==
  /\ v.total_transactions = Len(r.transactions)
  /\ v.verified_count = 0
  /\ v.failed_count = Len(r.transactions)
  /\ v.individual_results = <<>>
  /\ v.summary.success_rate = Some(0)
  /\ v.summary.error = Some(msg)

\* C13: when hint parsing or the backend's verify_batch raises, verify_batch
\* returns the uniform failure for its n transactions: total n, verified 0,
\* failed n, success_rate 0.0, the exception's message in summary.error and
\* no individual results.
C13_UniformBatchFailure ==
  \A s \in Slots :
    DoneOp(s, "verify_batch") =>
      /\ Response(s).kind = "return"
      /\ HintsBothBoundsOneMalformed(inp[s])
           => UniformBatchFailure(inp[s], Response(s).val, IsoError) /\ calls[s] = <<>>
      /\ RaisedIn(s, "verify_batch")
           => UniformBatchFailure(inp[s], Response(s).val, BackendError)

\* C13 witness: the backend raised on a list of two transactions
C13_Witness ==
  \E s \in Slots :
    /\ DoneOp(s, "verify_batch")
    /\ RaisedIn(s, "verify_batch")
    /\ Len(inp[s].transactions) = 2
    /\ Response(s).val.failed_count = 2
    /\ Response(s).val.summary.error = Some(BackendError)

\* C14: the backend's verify_batch receives the request's transaction list
\* as it is, in its order, and on success individual_results has the length
\* of the backend's results and its i-th entry is the projection of the
\* backend's i-th result, for every i.
C14_ResultsKeepOrder ==
  \A s \in Slots :
    /\ \A i \in CallsTo(s, "verify_batch") :
         calls[s][i].args.transactions = inp[s].transactions
    /\ DoneOp(s, "verify_batch") =>
         \A result \in ReturnedFrom(s, "verify_batch") :
           LET ir == Response(s).val.individual_results IN
           /\ Len(ir) = Len(result.results)
           /\ \A i \in 1..Len(ir) :
                /\ ir[i].verified = result.results[i].verified
                /\ ir[i].transaction_hash = result.results[i].transaction_hash
                /\ ir[i].batch_id = result.results[i].batch_id
                /\ ir[i].operation_type = result.results[i].operation_type
                /\ ir[i].error = result.results[i].error
                /\ (ir[i].blockchain_timestamp = None)
                     <=> (result.results[i].blockchain_timestamp = None)

\* C14 witness: two different transactions, the backend's first result a
\* failure and its second a success, and the response lists them in that order
C14_Witness ==
  \E s \in Slots :
    /\ DoneOp(s, "verify_batch")
    /\ Len(inp[s].transactions) = 2
    /\ inp[s].transactions[1] # inp[s].transactions[2]
    /\ \E result \in ReturnedFrom(s, "verify_batch") :
         /\ Len(result.results) = 2
         /\ ~result.results[1].verified
         /\ result.results[2].verified
    /\ Len(Response(s).val.individual_results) = 2
    /\ ~Response(s).val.individual_results[1].verified
    /\ Response(s).val.individual_results[2].verified

Min(a, b) == IF a <= b THEN a ELSE b

\* C15: the limit list_batches passes to the backend and the limit of its
\* response are both min(limit, 1000); offset and order_by reach the backend
\* as given, offset is echoed as given, and a limit above 1000 produces no
\* error: the page the backend returned is the page of the response.
C15_LimitClamped ==
  \A s \in Slots :
    /\ \A i \in CallsTo(s, "list_batches") :
         /\ calls[s][i].args.limit = Min(inp[s].limit, 1000)
         /\ calls[s][i].args.offset = inp[s].offset
         /\ calls[s][i].args.order_by = inp[s].order_by
    /\ DoneOp(s, "list_batches") =>
         /\ Response(s).kind = "return"
         /\ Response(s).val.limit = Min(inp[s].limit, 1000)
         /\ Response(s).val.offset = inp[s].offset
         /\ \A page \in ReturnedFrom(s, "list_batches") :
              (\A i \in 1..Len(page.batches) : page.batches[i].timestamp # None) =>
                /\ Len(Response(s).val.batches) = Len(page.batches)
                /\ Response(s).val.total_count = page.total_count
                /\ Response(s).val.filter_applied = filter_applied(inp[s].filter)

\* C15 witness: limit 5000 was served as 1000 and the response holds the
\* backend's page of two batches
C15_Witness ==
  \E s \in Slots :
    /\ DoneOp(s, "list_batches")
    /\ inp[s].limit = 5000
    /\ calls[s] # <<>>
    /\ calls[s][1].args.limit = 1000
    /\ Response(s).val.limit = 1000
    /\ Len(Response(s).val.batches) = 2

\* the empty page of list_batches with message msg
EmptyPage(r, v, msg) ==
  /\ v.batches = <<>>
  /\ v.total_count = 0
  /\ v.has_more = FALSE
  /\ v.filter_applied = Some([error |-> msg])
  /\ v.limit = Min(r.limit, 1000)

NoTimestampError == "'NoneType' object has no attribute 'isoformat'"

\* C16: list_batches never raises; when the parsing of a filter timestamp,
\* the backend's list_batches or the mapping of a returned record raises, the
\* response is the empty page {batches: [], total_count: 0, has_more: false}
\* with filter_applied = {error: message} and the clamped limit.
C16_ListingNeverRaises ==
  \A s \in Slots :
    DoneOp(s, "list_batches") =>
      LET t == TimeFields(inp[s]) IN
      /\ Response(s).kind = "return"
      /\ (t.time_start = Some(BadTime) \/ t.time_end = Some(BadTime))
           => EmptyPage(inp[s], Response(s).val, IsoError) /\ calls[s] = <<>>
      /\ RaisedIn(s, "list_batches") => EmptyPage(inp[s], Response(s).val, BackendError)
      /\ \A page \in ReturnedFrom(s, "list_batches") :
           (\E i \in 1..Len(page.batches) : page.batches[i].timestamp = None)
             => EmptyPage(inp[s], Response(s).val, NoTimestampError)

\* C16 witness: limit 5000, and the second record of the backend's page has
\* no timestamp: the response is the empty page with limit 1000
C16_Witness ==
  \E s \in Slots :
    /\ DoneOp(s, "list_batches")
    /\ inp[s].limit = 5000
    /\ \E page \in ReturnedFrom(s, "list_batches") :
         /\ Len(page.batches) = 2
         /\ page.batches[1].timestamp # None
         /\ page.batches[2].timestamp = None
    /\ EmptyPage(inp[s], Response(s).val, NoTimestampError)

\* every match of a backend answer can be mapped
Mappable(result) == \A i \in 1..Len(result.matches) : result.matches[i].timestamp # None

\* C17: the max_results search_batches passes to the backend is
\* min(max_results, 200), and a value above 200 produces no error: the
\* backend's matches are the matches of the response.
C17_MaxResultsClamped ==
  \A s \in Slots :
    /\ \A i \in CallsTo(s, "search_batches") :
         calls[s][i].args.max_results = Min(inp[s].max_results, 200)
    /\ DoneOp(s, "search_batches") =>
         /\ Response(s).kind = "return"
         /\ \A result \in ReturnedFrom(s, "search_batches") :
              Mappable(result) =>
                /\ Len(Response(s).val.matches) = Len(result.matches)
                /\ Response(s).val.search_criteria = inp[s].criteria

\* C17 witness: max_results 201 was served as 200 and the search returned
\* its two matches
C17_Witness ==
  \E s \in Slots :
    /\ DoneOp(s, "search_batches")
    /\ inp[s].max_results = 201
    /\ calls[s] # <<>>
    /\ calls[s][1].args.max_results = 200
    /\ Len(Response(s).val.matches) = 2
    /\ Response(s).val.search_criteria = inp[s].criteria

\* C18: a search that completes without exception has total_matches equal to
\* the number of matches the backend returned; with no match its suggestions
\* are the four fixed strings in their order, with a match they are absent.
C18_SuggestionsIffNoMatch ==
  \A s \in Slots :
    DoneOp(s, "search_batches") =>
      \A result \in ReturnedFrom(s, "search_batches") :
        Mappable(result) =>
          LET v == Response(s).val IN
          /\ v.total_matches = Len(result.matches)
          /\ v.total_matches = Len(v.matches)
          /\ Len(result.matches) = 0 =>
               v.suggestions =
                 Some(<<"Try expanding the time range if searching by date",
                        "Check if the database or table name is spelled correctly",
                        "Use list_batches to see all available batches",
                        "Try searching without specific criteria to see recent batches">>)
          /\ Len(result.matches) > 0 => v.suggestions = None

\* C18 witness: a search with one match, answered without suggestions
C18_Witness ==
  \E s \in Slots :
    /\ DoneOp(s, "search_batches")
    /\ \E result \in ReturnedFrom(s, "search_batches") : Len(result.matches) = 1
    /\ Response(s).val.total_matches = 1
    /\ Response(s).val.suggestions = None

\* the failure of search_batches with message msg
SearchFailure(v, msg) ==
  /\ v.matches = <<>>
  /\ v.total_matches = 0
  /\ v.search_criteria = [error |-> msg]
  /\ v.suggestions # None
  /\ Len(Val(v.suggestions)) = 1
  /\ Val(v.suggestions)[1] =
       "An error occurred during search. Check your search criteria and try again."

\* C19: search_batches never raises; when the parsing of a criteria
\* timestamp, the backend's search_batches or the mapping of a returned match
\* raises, the response has no matches, total_matches 0, the one generic
\* suggestion, and {error: message} in place of the criteria.
C19_SearchNeverRaises ==
  \A s \in Slots :
    DoneOp(s, "search_batches") =>
      LET t == TimeFields(inp[s]) IN
      /\ Response(s).kind = "return"
      /\ (t.time_start = Some(BadTime) \/ t.time_end = Some(BadTime))
           => SearchFailure(Response(s).val, IsoError) /\ calls[s] = <<>>
      /\ RaisedIn(s, "search_batches") => SearchFailure(Response(s).val, BackendError)
      /\ \A result \in ReturnedFrom(s, "search_batches") :
           ~Mappable(result) => SearchFailure(Response(s).val, NoTimestampError)

\* C19 witness: the second match the backend returned has no timestamp, and
\* the response is the failure without the first match
C19_Witness ==
  \E s \in Slots :
    /\ DoneOp(s, "search_batches")
    /\ \E result \in ReturnedFrom(s, "search_batches") :
         /\ Len(result.matches) = 2
         /\ result.matches[1].timestamp # None
         /\ result.matches[2].timestamp = None
    /\ SearchFailure(Response(s).val, NoTimestampError)

\* exactly one of time_start / time_end is supplied, and it is a valid timestamp
OneValidBound(r) ==
  LET t == TimeFields(r) IN
  \/ t.time_start = Some(T1) /\ t.time_end = None
  \/ t.time_start = None /\ t.time_end = Some(T2)

\* C20: in verify_transaction and verify_batch, a request with exactly one of
\* time_start / time_end, a valid timestamp, proceeds to the backend's verify
\* call without an error of its hints; the hints of that call have no
\* time_range and the other hint fields of the request, and are absent when
\* the request set no other hint.
C20_LoneBoundIsDropped ==
  \A s \in Slots :
    (/\ pc[s] # "idle"
     /\ inp[s].op \in {"verify_transaction", "verify_batch"}
     /\ OneValidBound(inp[s])) =>
      LET h == Val(inp[s].hints)
          others == \/ Truthy(h.batch_id) \/ Truthy(h.database_name)
                    \/ Truthy(h.table_name) \/ Truthy(h.expected_operation)
      IN
      /\ calls[s] # <<>>
      /\ pc[s] = "done" =>
           /\ CallsTo(s, inp[s].op) # {}
           /\ Response(s).kind = "return"
           /\ ~TypedFailure(inp[s], Response(s).val, IsoError)
           /\ loc[s].exc # Some(IsoError)
      /\ \A i \in CallsTo(s, inp[s].op) :
           LET vh == calls[s][i].args.hints IN
           /\ (vh = None) <=> ~others
           /\ vh # None =>
                /\ Val(vh).time_range = None
                /\ Val(vh).batch_id = h.batch_id
                /\ Val(vh).database_name = h.database_name
                /\ Val(vh).table_name = h.table_name
                /\ Val(vh).expected_operation = h.expected_operation

\* C20 witness: verify_batch with time_start alone and a database name went
\* to the backend with the database name and no time range, and was answered
C20_Witness ==
  \E s \in Slots :
    /\ DoneOp(s, "verify_batch")
    /\ TimeFields(inp[s]).time_start = Some(T1)
    /\ TimeFields(inp[s]).time_end = None
    /\ ReturnedFrom(s, "verify_batch") # {}
    /\ calls[s][1].args.hints # None
    /\ Val(calls[s][1].args.hints).database_name = Some("sales")
    /\ Val(calls[s][1].args.hints).time_range = None
    /\ Response(s).val.summary.error = None

\* C21 as stated: the timeout override of a verify_transaction request is
\* among the arguments of the backend's verify_transaction call of that
\* request.
C21_TimeoutReachesBackend ==
  \A s \in Slots :
    \A i \in CallsTo(s, "verify_transaction") :
      inp[s].timeout # None =>
        /\ "timeout" \in DOMAIN calls[s][i].args
        /\ calls[s][i].args.timeout = inp[s].timeout

(***************************************************************************)
(* C22: no step of this layer, of any of the eight operations and in any   *)
(* interleaving of two requests, changes the shared client's cache or its  *)
(* identity properties; and the response of the tier-2 inspection depends  *)
(* on no cache entry but the one keyed "batch_data_<batch id>".            *)
(***************************************************************************)
\* the response of the tier-2 step of request s, computed over the cache c
Tier2ResponseOver(s, c) ==
  LET a == Answer(s)
      result == Val(loc[s].result)
      found == IF a.st = "raised" THEN [st |-> "raised"]
               ELSE tier2_lookup(a.val, c, Val(result.batch_id), result.transaction_hash)
  IN Return(verification_result_out(tier2_response(Val(loc[s].response), found),
                                    loc[s].search_info))

C22_LayerOnlyReadsClient ==
  [][/\ (\E s \in Slots : Step(s)) => (cache' = cache /\ client' = client)
     /\ \A s \in Slots :
          vt_after_get_batch_data(s) =>
            \A k \in CacheKeys \ {cache_key(Val(Val(loc[s].result).batch_id))} :
              \A e \in CacheEntries :
                out'[s] = Tier2ResponseOver(s, [cache EXCEPT ![k] = e])]_vars

\* a verification answered from the populated cache entry of its batch while
\* the other request is still in flight, the entry being left in place
C22_Witness ==
  \E s, t \in Slots :
    /\ s # t
    /\ DoneOp(s, "verify_transaction")
    /\ ReturnedFrom(s, "get_batch_data") # {}
    /\ None \notin ReturnedFrom(s, "get_batch_data")
    /\ Response(s).val.operation_type = Some("DELETE")
    /\ cache[cache_key("B1")] # None
    /\ pc[t] \notin {"idle", "done"}

(***************************************************************************)
(* C23: in verify_transaction the interval reported as processing_time_ms  *)
(* starts before the backend verification call and ends after the          *)
(* enrichment lookups: when get_batch was answered, the reported value is  *)
(* the time from the start of the request to the end of its last lookup.   *)
(* With one request in flight the clock stands at that end when the        *)
(* request is done.                                                        *)
(***************************************************************************)
C23_TimeIncludesEnrichment ==
  \A s \in {"r1"} :
    (/\ DoneOp(s, "verify_transaction")
     /\ ReturnedFrom(s, "get_batch") # {}
     /\ Response(s).kind = "return"
     /\ Response(s).val.verified)
      => Response(s).val.processing_time_ms = now - loc[s].start_time

(***************************************************************************)
(* C24: the backend calls of one verify_transaction request come in a      *)
(* fixed order, each under its guard.                                      *)
(***************************************************************************)
\* the order and the guards of the calls request s has made so far:
\* _get_recent_batches at most once, first, and only without a batch_id hint;
\* verify_transaction at most once; get_batch at most once, after
\* verify_transaction returned verified=true with a batch id; get_batch_data
\* at most once, after get_batch returned a record and the backend reported
\* no operation_type
CallsInOrder(s) ==
  LET c == calls[s]
      verifications == ReturnedFrom(s, "verify_transaction")
  IN
  /\ \A fn \in {"_get_recent_batches", "verify_transaction", "get_batch", "get_batch_data"} :
       Cardinality(CallsTo(s, fn)) <= 1
  /\ \A i \in CallsTo(s, "_get_recent_batches") :
       /\ i = 1
       /\ ~HasBatchHint(inp[s])
  /\ \A i \in CallsTo(s, "verify_transaction") :
       /\ i = Len(c) - Cardinality(CallsTo(s, "get_batch") \cup CallsTo(s, "get_batch_data"))
       /\ \A j \in 1..(i - 1) : c[j].fn = "_get_recent_batches" /\ c[j].res # Pending
  /\ \A i \in CallsTo(s, "get_batch") :
       /\ i > 1 /\ c[i - 1].fn = "verify_transaction"
       /\ \E r \in verifications :
            r.verified /\ Truthy(r.batch_id) /\ c[i].args.batch_id = Val(r.batch_id)
  /\ \A i \in CallsTo(s, "get_batch_data") :
       /\ i > 1 /\ c[i - 1].fn = "get_batch"
       /\ c[i - 1].res.st = "returned" /\ c[i - 1].res.val # None
       /\ \A r \in verifications : r.verified /\ ~Truthy(r.operation_type)
  /\ (\E r \in verifications : ~r.verified) =>
       CallsTo(s, "get_batch") \cup CallsTo(s, "get_batch_data") = {}

\* C24 as stated: in order, and verify_transaction exactly once per request
C24_CallsInOrderVerifyOnce ==
  \A s \in Slots :
    (pc[s] # "idle" /\ inp[s].op = "verify_transaction") =>
      /\ CallsInOrder(s)
      /\ pc[s] = "done" => Cardinality(CallsTo(s, "verify_transaction")) = 1

\* C24 amended: in order; verify_transaction exactly once, except that a
\* request whose hints give both time bounds, one of them malformed, fails
\* before any backend call
C24_CallsInOrder ==
  \A s \in Slots :
    (pc[s] # "idle" /\ inp[s].op = "verify_transaction") =>
      /\ CallsInOrder(s)
      /\ pc[s] = "done" =>
           IF HintsBothBoundsOneMalformed(inp[s])
           THEN calls[s] = <<>>
           ELSE Cardinality(CallsTo(s, "verify_transaction")) = 1

\* a request that went through all four calls
C24_Witness ==
  \E s \in Slots :
    /\ DoneOp(s, "verify_transaction")
    /\ Len(calls[s]) = 4
    /\ calls[s][1].fn = "_get_recent_batches"
    /\ calls[s][2].fn = "verify_transaction"
    /\ calls[s][3].fn = "get_batch"
    /\ calls[s][4].fn = "get_batch_data"
    /\ Response(s).val.verified

(***************************************************************************)
(* C25: with two requests in flight, interleaved at their awaits, every    *)
(* request that has arrived eventually hands back a response, provided the *)
(* backend answers its calls; the response is a returned value, is handed  *)
(* back once and never replaced, and a request in flight can always take   *)
(* its next step or have its call answered, whatever the other request is  *)
(* doing.                                                                  *)
(***************************************************************************)
InFlight(s) == pc[s] \notin {"idle", "done"}

C25_EveryRequestAnswered ==
  /\ \A s \in Slots :
       (pc[s] # "idle") ~> (pc[s] = "done" /\ out[s] # None /\ Response(s).kind = "return")
  /\ [](\A s \in Slots :
         /\ out[s] # None <=> pc[s] = "done"
         /\ InFlight(s) => ENABLED (Resume(s) \/ LiveBackendStep(s)))
  /\ [][\A s \in Slots : out[s] # None => out'[s] = out[s]]_vars

\* a verification that arrived after the other request's first backend call
\* and was answered while the other request was still in flight
C25_Witness ==
  \E s, t \in Slots :
    /\ s # t
    /\ DoneOp(s, "verify_transaction")
    /\ loc[s].start_time > 0
    /\ Response(s).kind = "return"
    /\ Response(s).val.verified
    /\ InFlight(t)

(***************************************************************************)
(* C26: in get_contract_info, whenever the backend's get_contract_info     *)
(* call returned a record, the response reports that record's contract id, *)
(* total_batches, total_transactions and databases, even if the            *)
(* get_contract_stats call raises.                                         *)
(***************************************************************************)
C26_RecordSurvivesStatsFailure ==
  \A s \in Slots :
    DoneOp(s, "get_contract_info") =>
      \A r \in ReturnedFrom(s, "get_contract_info") :
        r # None =>
          /\ Response(s).kind = "return"
          /\ Response(s).val.contract_address = Val(r).contract_id
          /\ Response(s).val.total_batches = Val(r).total_batches
          /\ Response(s).val.total_transactions = Val(r).total_transactions
          /\ Response(s).val.databases = Val(r).supported_databases

(***************************************************************************)
(* C27: in verify_transaction without a batch_id hint, when                *)
(* _get_recent_batches raises, the backend verify_transaction call is      *)
(* still made and, once it has returned, the result carries the backend's  *)
(* verified flag and search_info.total_batches = 0.                        *)
(***************************************************************************)
C27_EnumerationFailureIsHarmless ==
  \A s \in Slots :
    (DoneOp(s, "verify_transaction") /\ RaisedIn(s, "_get_recent_batches")) =>
      /\ ~HasBatchHint(inp[s])
      /\ CallsTo(s, "verify_transaction") # {}
      /\ Response(s).kind = "return"
      /\ \A r \in ReturnedFrom(s, "verify_transaction") :
           /\ Response(s).val.verified = r.verified
           /\ Response(s).val.search_info # None
           /\ Val(Response(s).val.search_info).total_batches = 0

(***************************************************************************)
(* C28: in every successful verify_batch response, summary.hints_used is   *)
(* true exactly when a hints object was passed to the backend verify_batch *)
(* call, and false when the backend received no hints.                     *)
(***************************************************************************)
C28_HintsUsedIffPassed ==
  \A s \in Slots :
    (DoneOp(s, "verify_batch") /\ ReturnedFrom(s, "verify_batch") # {}) =>
      /\ Response(s).kind = "return"
      /\ Response(s).val.summary.hints_used = Some(calls[s][1].args.hints # None)

(***************************************************************************)
(* C29: in every result returned by verify_transaction, the error result   *)
(* included, verification_method is "smart_contract" iff the request set   *)
(* use_contract_verification=true, and "local" otherwise.                  *)
(***************************************************************************)
C29_MethodFollowsRequest ==
  \A s \in Slots :
    DoneOp(s, "verify_transaction") =>
      /\ Response(s).kind = "return"
      /\ Response(s).val.verification_method =
           IF inp[s].use_contract_verification THEN "smart_contract" ELSE "local"

(***************************************************************************)
(* C30: the counts and the individual results of a verify_batch response,  *)
(* on the success path and on the exception path, for a backend whose      *)
(* result satisfies total = verified + failed = number of results.         *)
(***************************************************************************)
\* every result the backend returned to request s is consistent in itself
BackendResultConsistent(s) ==
  \A r \in ReturnedFrom(s, "verify_batch") :
    r.total = r.verified + r.failed /\ r.total = Len(r.results)

\* C30 as stated: on both paths the counts add up and individual_results has
\* exactly total_transactions entries
C30_CountsAndEntriesAddUp ==
  \A s \in Slots :
    (DoneOp(s, "verify_batch") /\ BackendResultConsistent(s)) =>
      LET v == Response(s).val IN
      /\ Response(s).kind = "return"
      /\ v.verified_count + v.failed_count = v.total_transactions
      /\ Len(v.individual_results) = v.total_transactions

\* C30 amended: on both paths the counts add up; individual_results has
\* total_transactions entries on the success path and none on the exception
\* path, where total_transactions is the number of transactions submitted
C30_CountsAddUp ==
  \A s \in Slots :
    (DoneOp(s, "verify_batch") /\ BackendResultConsistent(s)) =>
      LET v == Response(s).val IN
      /\ Response(s).kind = "return"
      /\ v.verified_count + v.failed_count = v.total_transactions
      /\ IF ReturnedFrom(s, "verify_batch") # {}
         THEN Len(v.individual_results) = v.total_transactions
         ELSE /\ v.individual_results = <<>>
              /\ v.total_transactions = Len(inp[s].transactions)
              /\ v.failed_count = v.total_transactions

\* the exception path with two transactions submitted: both counted as
\* failed, no individual result
C30_Witness ==
  \E s \in Slots :
    /\ DoneOp(s, "verify_batch")
    /\ Len(inp[s].transactions) = 2
    /\ RaisedIn(s, "verify_batch")
    /\ Response(s).val.total_transactions = 2
    /\ Response(s).val.failed_count = 2
    /\ Response(s).val.individual_results = <<>>

====
